---- MODULE Spec2Model ----
(***************************************************************************)
(* A state-machine model of the OpenTLU runtime trust-and-safety layer:    *)
(*   - runtime/controller.py   MitigationController                        *)
(*   - safety/filter.py        SafetyFilter and its projections            *)
(*   - runtime/logging.py      InterventionLogger, FileLogSink             *)
(*   - runtime/health.py       AlertEngine                                 *)
(*   - evaluation/deployment.py ABTestRunner, DeploymentManager,           *)
(*                              AutoPromoter, ShadowRunner                 *)
(*   - foundations/conformal.py split, adaptive and mondrian predictors    *)
(*   - safety/monitors.py      TTCMonitor                                  *)
(*   - runtime/ood.py          OODEnsemble                                 *)
(*                                                                         *)
(* Every component has its own specification (SpecController, SpecFilter,  *)
(* ...) over the shared variable tuple; the variables of the other         *)
(* components stay at their initial values.                                *)
(*                                                                         *)
(* Real numbers are fixed point.  Severities, scores and thresholds of the *)
(* controller are in hundredths (1.0 = 100).  Actions and constraint       *)
(* bounds of the filter are in units of 1/Unit.                            *)
(***************************************************************************)
EXTENDS Integers, Sequences, FiniteSets, TLC

VARIABLES
    \* ---- MitigationController (runtime/controller.py)
    monitors,          \* self.monitors: the number of monitors
    current_state,     \* self.current_state
    stepIn,            \* the arguments and monitor outcomes of the last step call
    stepOut,           \* what the last step call returned ("raised": it raised)
    stepFirst,         \* the first step call: its inputs and what it returned
    \* ---- SafetyFilter (safety/filter.py)
    filterCfg,         \* box_constraints, linear_constraints, cbf_filter, fallback_action
    filterIn,          \* candidate_action, state of the last filter call
    filterOut,         \* the FilteredAction the last filter call returned
    \* ---- InterventionLogger (runtime/logging.py)
    log_all,           \* self.log_all
    trace_id,          \* self._trace_id (uuid4: a fresh value per trace)
    step_number,       \* self._step_number
    previous_state,    \* self._previous_state
    sinkRecords,       \* the records handed to sink.write, in emission order
    lastLog,           \* the last log call: its state and the state of the call before it
    nTraces,           \* trace ids drawn so far
    field_filters,     \* self.field_filters
    replayOut,         \* what the last replay or compute_divergence returned
    \* ---- FileLogSink (runtime/logging.py)
    buffer,            \* self._buffer
    write_queue,       \* self._write_queue
    closed,            \* self._closed
    logFile,           \* the lines of the log file
    writerPc,          \* the background writer's position in _writer_loop
    writerBatch,       \* the batch the writer has taken from the queue
    closePc,           \* the closing thread's position in close()
    accepted,          \* the records passed to write() so far
    \* ---- AlertEngine (runtime/health.py)
    last_alert,        \* self._last_alert
    alert_history,     \* self._alert_history
    produced,          \* every alert evaluate has returned, in order
    evalPc,            \* per thread: position in evaluate
    evalNow,           \* per thread: the value of time.time() read at line 253
    evalSeen,          \* the arguments of the last evaluation
    \* ---- ABTestRunner (evaluation/deployment.py)
    allocation,        \* self.allocation, as the ordered list self._ranges is built from
    ab_metrics,        \* self._metrics
    assigned,          \* <<sticky value, variant>> of the run calls that carried the key
    \* ---- DeploymentManager (evaluation/deployment.py)
    production_policy, \* self.production_policy
    current_stage,     \* self._current_stage
    candidate_policy,  \* self._candidate_policy
    shadow_runner,     \* self._shadow_runner
    ab_runner,         \* self._ab_runner
    lastCall,          \* the last management call: its name, the stage before it, its outcome
    promotePc,         \* the promoting thread's position in promote()
    runPc,             \* the running thread's position in run()
    runSeen,           \* what the manager held when run() was called
    runOut,            \* what run() executed, or the error it raised
    \* ---- conformal predictors (foundations/conformal.py)
    cp_config,         \* the predictor's class, config.coverage and gamma
    calibration,       \* SplitConformalPredictor._calibration
    cp_quantile,       \* AdaptiveConformalPredictor._quantile
    n_updates,         \* AdaptiveConformalPredictor._n_updates
    class_quantiles,   \* MondrianConformalPredictor._class_quantiles
    nFits,             \* the fit calls that returned a calibration id
    cpCalls,           \* the calls made on the predictor
    cpOut,             \* the last call on the predictor and its outcome
    \* ---- TTCMonitor (safety/monitors.py)
    debounce_steps,    \* self.config.debounce_steps
    trigger_history,   \* self._trigger_history
    ttcOut,            \* the MonitorOutput of the last check call
    ttcChecks,         \* per check call so far: whether its minimum TTC was critical
    \* ---- AutoPromoter (evaluation/deployment.py)
    promoterIn,        \* the arguments of the evaluate call
    promoterOut,       \* what it returned
    \* ---- ShadowRunner (evaluation/deployment.py)
    shadow_fraction,   \* self.shadow_fraction
    n_shadow_runs,     \* self._n_shadow_runs
    n_shadow_errors,   \* self._n_shadow_errors
    divergence_history,\* self._divergence_history
    shadowCalls,       \* the run calls made on the runner
    shadowOut,         \* the last run call: what it saw and returned
    statsOut,          \* what the last get_statistics call returned
    \* ---- OODEnsemble (runtime/ood.py)
    ood_config,        \* weights, threshold and combination_method
    oodOut,            \* the last score call: the detectors' outcomes and the OODResult
    \* ---- a controller with a ConstraintMonitor (safety/monitors.py, runtime/controller.py)
    cmOut,             \* the last step call: its inputs, the monitor's output and the state returned
    \* ---- concurrent SplitConformalPredictor.fit calls (foundations/conformal.py)
    fitPc,             \* where each thread is in fit: "idle", "stored", "returned" or "raised"
    fitMine,           \* the calibration_id of the CalibrationData the thread's call stored
    fitRet,            \* the calibration_id the thread's call returned
    fitCalls,          \* the fit calls started
    \* ---- concurrent InterventionLogger.log calls (runtime/logging.py)
    logPc,             \* where each thread is in log: "idle", "wrote", "load" or "store"
    logArg,            \* the mitigation state the thread's call was passed
    logTmp,            \* the value of _step_number the thread's "+= 1" has loaded
    logCalls,          \* the log calls started
    logDone,           \* the log calls that have returned
    \* ---- RollingStatistics (runtime/health.py)
    rsValues,          \* self._values: the entries, oldest first, each with its time and arrival number
    rsTotal,           \* self._total_count
    rsErrors,          \* self._error_count
    rsClock,           \* the last value time.monotonic() returned
    rsPc,              \* where each thread is in record: "idle" or "waiting" (for the lock)
    rsNow,             \* the time the thread's record call read
    rsLast,            \* the record call that returned last: its time
    \* ---- AlertEngine.evaluate step by step, with the channels (runtime/health.py)
    dLock,             \* whether self._lock is held
    dPc,               \* where the evaluation is: "idle", "rule", "send", "returned" or "deadlocked"
    dRule,             \* the index of the rule the loop is at
    dChan,             \* the index of the channel the loop over rule.channels is at
    dIn,               \* the arguments of the evaluation, its time and _last_alert when it began
    dTriggered,        \* the list evaluate returns
    dCalls,            \* the calls of rule.condition and channel.send made, in order
    dEvals             \* the evaluate calls made

ctrlVars   == <<monitors, current_state, stepIn, stepOut, stepFirst>>
filterVars == <<filterCfg, filterIn, filterOut>>
loggerVars == <<log_all, trace_id, step_number, previous_state, sinkRecords, lastLog, nTraces,
                field_filters, replayOut>>
sinkVars   == <<buffer, write_queue, closed, logFile, writerPc, writerBatch, closePc, accepted>>
alertVars  == <<last_alert, alert_history, produced, evalPc, evalNow, evalSeen>>
abVars     == <<allocation, ab_metrics, assigned>>
deployVars == <<production_policy, current_stage, candidate_policy, shadow_runner,
                ab_runner, lastCall, promotePc, runPc, runSeen, runOut>>
conformalVars == <<cp_config, calibration, cp_quantile, n_updates, class_quantiles, nFits,
                   cpCalls, cpOut>>
ttcVars      == <<debounce_steps, trigger_history, ttcOut, ttcChecks>>
promoterVars == <<promoterIn, promoterOut>>
shadowVars   == <<shadow_fraction, n_shadow_runs, n_shadow_errors, divergence_history,
                  shadowCalls, shadowOut, statsOut>>
oodVars      == <<ood_config, oodOut>>
constraintVars == <<cmOut>>
fitVars == <<fitPc, fitMine, fitRet, fitCalls>>
raceVars == <<logPc, logArg, logTmp, logCalls, logDone>>
rollingVars == <<rsValues, rsTotal, rsErrors, rsClock, rsPc, rsNow, rsLast>>
dispatchVars == <<dLock, dPc, dRule, dChan, dIn, dTriggered, dCalls, dEvals>>

vars == <<ctrlVars, filterVars, loggerVars, sinkVars, alertVars, abVars, deployVars, conformalVars,
          ttcVars, promoterVars, shadowVars, oodVars, constraintVars, fitVars, raceVars,
          rollingVars, dispatchVars>>

None == "None"

\* The value of a ghost variable before the first call it records.
NoCall == [none |-> TRUE]

\* An absent (None) vector.
NoVec == <<>>

Max(a, b) == IF a >= b THEN a ELSE b

Min(a, b) == IF a <= b THEN a ELSE b

Abs(x) == IF x < 0 THEN -x ELSE x

RECURSIVE SeqSum(_)
SeqSum(s) == IF s = <<>> THEN 0 ELSE Head(s) + SeqSum(Tail(s))

(***************************************************************************)
(* MitigationState (foundations/contracts.py)                              *)
(***************************************************************************)
NOMINAL == "nominal"

CAUTIOUS == "cautious"

FALLBACK == "fallback"

SAFE_STOP == "safe_stop"

HUMAN_ESCALATION == "human_escalation"

MitigationState == {NOMINAL, CAUTIOUS, FALLBACK, SAFE_STOP, HUMAN_ESCALATION}

(***************************************************************************)
(* MitigationController                                                    *)
(***************************************************************************)
\* The largest number of monitors a controller is built with.
MaxMonitors == 2

\* Constructor defaults, in hundredths.
uncertainty_threshold == 50

ood_threshold == 80

\* MonitorOutput.severity is validated to lie in [0, 1]; in hundredths.
Severities == {10, 11, 100}

\* ood_score and epistemic_score at and just above their thresholds.
OodScores == {80, 81}

EpistemicScores == {50, 51}

RAISES == "raises"

\* What a monitor's check can do: return a MonitorOutput with a severity, or raise.
MonitorOutcomes == [kind : {"returns"}, severity : Severities] \cup {[kind |-> RAISES]}

RECURSIVE SeqMax(_)
SeqMax(s) == IF Len(s) = 1 THEN s[1] ELSE Max(s[1], SeqMax(Tail(s)))

\* max([m.severity for m in monitor_outputs]) if monitor_outputs else 0.0
MaxSeverity(outs) ==
    IF Len(outs) = 0 THEN 0 ELSE SeqMax([i \in 1..Len(outs) |-> outs[i].severity])

SoftViolationMut(max_severity) == max_severity >= 10

\* max_severity > 0.1
SoftViolation(max_severity) == max_severity > 10

\* A chain that stays in SafeStop once it was entered.
NewStateMut(max_severity, ood_score, epistemic_score) ==
    IF max_severity >= 100 \/ current_state = SAFE_STOP THEN SAFE_STOP
    ELSE IF ood_score > ood_threshold \/ SoftViolation(max_severity) THEN FALLBACK
    ELSE IF epistemic_score > uncertainty_threshold THEN CAUTIOUS
    ELSE NOMINAL

\* The if / elif chain of step.
NewState(max_severity, ood_score, epistemic_score) ==
    IF max_severity >= 100 THEN SAFE_STOP
    ELSE IF ood_score > ood_threshold \/ SoftViolation(max_severity) THEN FALLBACK
    ELSE IF epistemic_score > uncertainty_threshold THEN CAUTIOUS
    ELSE NOMINAL

\* What the monitors of one step call do.  The first monitor ranges over every
\* outcome, the others over the raising check and the two extreme severities.
StepOutcomes ==
    { outs \in [1..monitors -> MonitorOutcomes] :
        \A i \in 2..monitors :
            outs[i].kind = "returns" => outs[i].severity \in {10, 100} }

AnyRaises(outs) == \E i \in 1..Len(outs) : outs[i].kind = RAISES

\* step: the list comprehension calls every monitor's check with no error
\* boundary, so a check that raises makes step raise before current_state is
\* assigned.
Step ==
    \E outs \in StepOutcomes, ood \in OodScores, epi \in EpistemicScores :
        /\ stepIn' = [outs |-> outs, ood_score |-> ood, epistemic_score |-> epi]
        /\ IF AnyRaises(outs)
           THEN /\ stepOut' = "raised"
                /\ UNCHANGED current_state
           ELSE /\ current_state' = NewState(MaxSeverity(outs), ood, epi)
                /\ stepOut' = current_state'
        /\ stepFirst' =
              IF stepFirst = NoCall
              THEN [in |-> stepIn', out |-> stepOut', repeated |-> FALSE]
              ELSE IF stepIn' = stepFirst.in /\ current_state # NOMINAL
              THEN [stepFirst EXCEPT !.repeated = TRUE]
              ELSE stepFirst
        /\ UNCHANGED monitors

InitController ==
    /\ monitors \in 0..MaxMonitors
    /\ current_state = NOMINAL
    /\ stepIn = NoCall
    /\ stepOut = None
    /\ stepFirst = NoCall

(***************************************************************************)
(* SafetyFilter.  Actions are pairs <<x, y>> in units of 1/Unit.  The      *)
(* inputs below are multiples of Unit/2 and the rows of A have entries in  *)
(* {-1, 0, 1}, so every division of a projection step is exact.  Two       *)
(* distinct fixed-point values differ by far more than allclose's and      *)
(* the projection's tolerances (1e-5 relative, 1e-8 and 1e-6 absolute), so *)
(* "close" is equality and "norm < 1e-6" is "is the zero vector".          *)
(***************************************************************************)
\* 1.0 in fixed point: room for four halvings and the ninths of the line search.
Unit == 16 * 9

\* Candidate coordinates range over -MaxCoord..MaxCoord halves.
MaxCoord == 3

\* linear_constraint_project's defaults; the tolerance 1e-6 is below one
\* fixed-point unit.
max_iterations == 100

tolerance == 0

\* CBFFilter.filter_action's default n_samples.
n_samples == 10

Dims == 1..2

Zero == <<0, 0>>

Dot(a, x) == a[1] * x[1] + a[2] * x[2]

Clip(v, lo, hi) == IF v < lo THEN lo ELSE IF v > hi THEN hi ELSE v

\* box_constraint_project: (projected, was_modified)
box_constraint_project(action, constraint) ==
    LET projected == [i \in Dims |-> Clip(action[i], constraint.lower[i], constraint.upper[i])]
    IN  <<projected, projected # action>>

\* One pass of the inner loop "for i in range(len(b))" from row i on.
RECURSIVE RowPass(_, _, _)
RowPass(x, c, i) ==
    IF i > Len(c.b) THEN x
    ELSE LET a_i == c.A[i]
             violation == Dot(a_i, x) - c.b[i]
             norm_sq == Dot(a_i, a_i)
             y == IF violation > tolerance /\ norm_sq > 0
                  THEN [k \in Dims |-> x[k] - (violation * a_i[k]) \div norm_sq]
                  ELSE x
         IN  RowPass(y, c, i + 1)

\* The outer loop "for _ in range(max_iterations)" with its convergence break.
RECURSIVE Iterate(_, _, _)
Iterate(x, c, left) ==
    IF left = 0 THEN x
    ELSE LET y == RowPass(x, c, 1)
         IN  IF y = x THEN y ELSE Iterate(y, c, left - 1)

MaxViolation(c, x) == SeqMax([i \in 1..Len(c.b) |-> Dot(c.A[i], x) - c.b[i]])

\* linear_constraint_project: (projected, was_modified)
linear_constraint_project(action, constraint) ==
    IF MaxViolation(constraint, action) <= tolerance
    THEN <<action, FALSE>>
    ELSE <<Iterate(action, constraint, max_iterations), TRUE>>

\* The dynamics and barrier of the repository's CBF test: predict(s, a) = s + a,
\* h(x) = x[0], alpha = 1.0.  margin = h(next) - (1 - alpha) * h(current).
CbfMargin(state, action) == state[1] + action[1]

\* (1 - alpha) * action for alpha = k / (n_samples - 1), the k-th point of linspace(0, 1, n_samples)
Scaled(action, k) ==
    [i \in Dims |-> (action[i] * (n_samples - 1 - k)) \div (n_samples - 1)]

RECURSIVE LineSearch(_, _, _)
LineSearch(state, action, k) ==
    IF k > n_samples - 1 THEN <<Zero, TRUE, state[1]>>
    ELSE IF CbfMargin(state, Scaled(action, k)) >= 0
         THEN <<Scaled(action, k), TRUE, CbfMargin(state, Scaled(action, k))>>
         ELSE LineSearch(state, action, k + 1)

\* CBFFilter.filter_action: (safe_action, was_modified, margin)
filter_action(state, action) ==
    IF CbfMargin(state, action) >= 0
    THEN <<action, FALSE, CbfMargin(state, action)>>
    ELSE LineSearch(state, action, 0)

Put(m, k, v) == [n \in DOMAIN m \cup {k} |-> IF n = k THEN v ELSE m[n]]

EmptyMap == [n \in {} |-> 0]

\* Stage 1 of filter: the loop over self.box_constraints from index i on.
RECURSIVE ApplyBoxes(_, _, _)
ApplyBoxes(acc, boxes, i) ==
    IF i > Len(boxes) THEN acc
    ELSE LET c == boxes[i]
             r == box_constraint_project(acc.action, c)
             lower_margin == Min(r[1][1] - c.lower[1], r[1][2] - c.lower[2])
             upper_margin == Min(c.upper[1] - r[1][1], c.upper[2] - r[1][2])
         IN  ApplyBoxes([acc EXCEPT !.action = r[1],
                                    !.was_modified = @ \/ r[2],
                                    !.violation_type = IF r[2] THEN c.name ELSE @,
                                    !.constraint_margins =
                                        Put(@, c.name, Min(lower_margin, upper_margin))],
                        boxes, i + 1)

\* Stage 2 of filter: the loop over self.linear_constraints from index i on.
RECURSIVE ApplyLinear(_, _, _)
ApplyLinear(acc, lins, i) ==
    IF i > Len(lins) THEN acc
    ELSE LET c == lins[i]
             r == linear_constraint_project(acc.action, c)
         IN  ApplyLinear([acc EXCEPT !.action = r[1],
                                     !.was_modified = @ \/ r[2],
                                     !.violation_type = IF r[2] THEN c.name ELSE @,
                                     !.constraint_margins =
                                         Put(@, c.name, 0 - MaxViolation(c, r[1]))],
                         lins, i + 1)

\* Stage 3 of filter: the CBF filter, when one is configured and a state is given.
ApplyCbf(acc, cfg, state) ==
    IF cfg.cbf_filter = None \/ state = NoVec THEN acc
    ELSE IF cfg.cbf_filter = RAISES
         THEN IF cfg.fallback_action # NoVec
              THEN [acc EXCEPT !.action = cfg.fallback_action,
                               !.fallback_used = TRUE,
                               !.was_modified = TRUE]
              ELSE acc
         ELSE LET r == filter_action(state, acc.action)
              IN  [acc EXCEPT !.action = r[1],
                              !.was_modified = @ \/ r[2],
                              !.violation_type = IF r[2] THEN "cbf" ELSE @,
                              !.constraint_margins = Put(@, "cbf", r[3])]

\* Stage 4 of filter: a (near) zero action is replaced by the fallback action.
ApplyFallback(acc, cfg) ==
    IF acc.action = Zero /\ cfg.fallback_action # NoVec
    THEN [acc EXCEPT !.action = cfg.fallback_action, !.fallback_used = TRUE]
    ELSE acc

\* SafetyFilter.filter
FilterAction(cfg, candidate_action, state) ==
    LET start == [action |-> candidate_action, was_modified |-> FALSE,
                  constraint_margins |-> EmptyMap, fallback_used |-> FALSE,
                  violation_type |-> None]
        boxed == ApplyBoxes(start, cfg.box_constraints, 1)
        lined == ApplyLinear(boxed, cfg.linear_constraints, 1)
        cbfed == ApplyCbf(lined, cfg, state)
    IN  ApplyFallback(cbfed, cfg)

BoxSatisfied(c, action) ==
    \A i \in Dims : action[i] >= c.lower[i] /\ action[i] <= c.upper[i]

LinearSatisfied(c, action) == MaxViolation(c, action) <= 0

RECURSIVE CheckBoxes(_, _, _, _)
CheckBoxes(results, boxes, action, i) ==
    IF i > Len(boxes) THEN results
    ELSE CheckBoxes(Put(results, boxes[i].name, BoxSatisfied(boxes[i], action)),
                    boxes, action, i + 1)

RECURSIVE CheckLinear(_, _, _, _)
CheckLinear(results, lins, action, i) ==
    IF i > Len(lins) THEN results
    ELSE CheckLinear(Put(results, lins[i].name, LinearSatisfied(lins[i], action)),
                     lins, action, i + 1)

\* SafetyFilter.check_constraints: name -> satisfied
check_constraints(cfg, action) ==
    CheckLinear(CheckBoxes(EmptyMap, cfg.box_constraints, action, 1),
                cfg.linear_constraints, action, 1)

\* The constraints the filters of the model are built from.
BoxUnit == [lower |-> <<0 - Unit, 0 - Unit>>, upper |-> <<Unit, Unit>>, name |-> "box"]

BoxPositive == [lower |-> <<0, 0>>, upper |-> <<Unit, Unit>>, name |-> "box_positive"]

\* x + y <= 1
LinSum == [A |-> << <<1, 1>> >>, b |-> <<Unit>>, name |-> "linear"]

\* x - y <= -1/2
LinDiag == [A |-> << <<1, -1>> >>, b |-> <<0 - (Unit \div 2)>>, name |-> "linear_diag"]

\* x <= 1/2 and y <= 1/2
LinCorner == [A |-> << <<1, 0>>, <<0, 1>> >>, b |-> <<Unit \div 2, Unit \div 2>>,
              name |-> "linear_corner"]

BoxConfigs == { <<>>, <<BoxUnit>>, <<BoxPositive>>, <<BoxUnit, BoxPositive>> }

LinearConfigs == { <<>>, <<LinSum>>, <<LinDiag>>, <<LinCorner>>, <<LinSum, LinDiag>> }

CbfConfigs == {None, "barrier", RAISES}

\* No fallback action, or (0, 1/2), which satisfies every constraint above.
FallbackConfigs == {NoVec, <<0, Unit \div 2>>}

Coords == {k * (Unit \div 2) : k \in (0 - MaxCoord)..MaxCoord}

Candidates == Coords \X Coords

FilterStates == {NoVec, <<0, 0>>, <<Unit, 0>>}

\* One filter call.
Filter ==
    \E candidate_action \in Candidates, state \in FilterStates :
        /\ filterIn' = [candidate_action |-> candidate_action, state |-> state]
        /\ filterOut' = FilterAction(filterCfg, candidate_action, state)
        /\ UNCHANGED filterCfg

InitFilter ==
    /\ filterCfg \in [box_constraints : BoxConfigs, linear_constraints : LinearConfigs,
                      cbf_filter : CbfConfigs, fallback_action : FallbackConfigs]
    /\ filterIn = NoCall
    /\ filterOut = NoCall

(***************************************************************************)
(* InterventionLogger.  uuid4 trace ids are modelled as fresh numbers.     *)
(***************************************************************************)
\* The number of log calls and of traces of a run of the model.
MaxLogCalls == 3

MaxTraces == 2

\* The mitigation states passed to log.
LoggedStates == {NOMINAL, CAUTIOUS, SAFE_STOP}

ShouldLogMut(all, mitigation_state, previous) == all \/ mitigation_state # NOMINAL

\* should_log, lines 249-253
ShouldLog(all, mitigation_state, previous) ==
    all \/ mitigation_state # NOMINAL \/ previous # NOMINAL

NextStepNumberMut(n) == n

\* self._step_number += 1
NextStepNumber(n) == n + 1

\* The observations passed to log: top-level keys and their values.
Observations ==
    { [k \in {"speed"} |-> 1],
      [k \in {"speed", "user_id"} |-> IF k = "speed" THEN 1 ELSE 2] }

\* field_filters of the modelled loggers
FieldFilters == { {}, {"user_id"}, {"speed"} }

\* The deterministic policy of the loop that calls log and of the replays:
\* observation["speed"] + observation.get("user_id", 0).  It raises KeyError on
\* an observation without "speed".
PolicyRaises(observation) == "speed" \notin DOMAIN observation

Policy(observation) ==
    << observation["speed"]
       + (IF "user_id" \in DOMAIN observation THEN observation["user_id"] ELSE 0) >>

FilterObservationMut(observation, filters) == observation

\* {k: v for k, v in observation.items() if k not in self.field_filters}
FilterObservation(observation, filters) ==
    [k \in DOMAIN observation \ filters |-> observation[k]]

\* A record that takes Nominal for the previous state.
InterventionRecordMut(mitigation_state, observation, action_taken) ==
    [trace_id |-> trace_id, step_number |-> step_number,
     observation |-> FilterObservation(observation, field_filters),
     mitigation_state |-> mitigation_state, previous_state |-> NOMINAL,
     action_taken |-> action_taken]

\* The InterventionRecord built at lines 287-302 (the fields the model follows).
InterventionRecord(mitigation_state, observation, action_taken) ==
    [trace_id |-> trace_id, step_number |-> step_number,
     observation |-> FilterObservation(observation, field_filters),
     mitigation_state |-> mitigation_state, previous_state |-> previous_state,
     action_taken |-> action_taken]

\* The log calls made so far.
nLogCalls == IF lastLog = NoCall THEN 0 ELSE lastLog.call

\* log(observation, mitigation_state, ..., action_taken), called by a loop
\* that passes the action its policy chose for the observation.
Log ==
    \E mitigation_state \in LoggedStates, observation \in Observations :
        /\ nLogCalls < MaxLogCalls
        /\ LET should_log == ShouldLog(log_all, mitigation_state, previous_state)
           IN  /\ lastLog' = [call |-> nLogCalls + 1,
                              trace_id |-> trace_id,
                              state |-> mitigation_state,
                              prior |-> IF lastLog = NoCall THEN None ELSE lastLog.state,
                              observation |-> observation]
               /\ IF ~should_log
                  THEN /\ step_number' = NextStepNumber(step_number)
                       /\ UNCHANGED <<sinkRecords, previous_state>>
                  ELSE /\ sinkRecords' =
                             Append(sinkRecords,
                                    InterventionRecord(mitigation_state, observation,
                                                       Policy(observation)))
                       /\ previous_state' = mitigation_state
                       /\ step_number' = NextStepNumber(step_number)
        /\ UNCHANGED <<log_all, trace_id, nTraces, field_filters, replayOut>>

\* new_trace
NewTrace ==
    /\ nTraces < MaxTraces
    /\ trace_id' = nTraces + 1
    /\ nTraces' = nTraces + 1
    /\ step_number' = 0
    /\ previous_state' = NOMINAL
    /\ lastLog' = [call |-> nLogCalls, trace_id |-> trace_id', state |-> None,
                   prior |-> None, observation |-> None]
    /\ UNCHANGED <<log_all, sinkRecords, field_filters, replayOut>>

InitLogger ==
    /\ log_all \in BOOLEAN
    /\ trace_id = 1
    /\ nTraces = 1
    /\ step_number = 0
    /\ previous_state = NOMINAL
    /\ sinkRecords = <<>>
    /\ lastLog = NoCall
    /\ field_filters \in FieldFilters
    /\ replayOut = NoCall

(***************************************************************************)
(* FileLogSink: the threads calling write and close, and the background    *)
(* writer thread.  Records are numbered in the order write receives them.  *)
(***************************************************************************)
\* The number of write calls of a run of the model, and the sink's buffer_size.
MaxWrites == 4

BufferSize == 2

\* write
SinkWrite ==
    /\ closePc = "open"
    /\ Len(accepted) < MaxWrites
    /\ LET record == Len(accepted) + 1
           appended == Append(buffer, record)
       IN  /\ accepted' = Append(accepted, record)
           /\ IF Len(appended) >= BufferSize
              THEN /\ write_queue' = Append(write_queue, appended)
                   /\ buffer' = <<>>
              ELSE /\ buffer' = appended
                   /\ UNCHANGED write_queue
    /\ UNCHANGED <<closed, logFile, writerPc, writerBatch, closePc>>

\* close, line 166: self.flush()
CloseFlush ==
    /\ closePc = "open"
    /\ IF buffer # <<>>
       THEN /\ write_queue' = Append(write_queue, buffer)
            /\ buffer' = <<>>
       ELSE UNCHANGED <<write_queue, buffer>>
    /\ closePc' = "flushed"
    /\ UNCHANGED <<closed, logFile, writerPc, writerBatch, accepted>>

\* close, line 167: self._closed = True
CloseSetClosed ==
    /\ closePc = "flushed"
    /\ closed' = TRUE
    /\ closePc' = "joining"
    /\ UNCHANGED <<buffer, write_queue, logFile, writerPc, writerBatch, accepted>>

\* close, line 168: join returns because the writer thread has ended.
CloseJoined ==
    /\ closePc = "joining"
    /\ writerPc = "ended"
    /\ closePc' = "returned"
    /\ UNCHANGED <<buffer, write_queue, closed, logFile, writerPc, writerBatch, accepted>>

\* close, line 168: join(timeout=5.0) returns after the timeout with the
\* writer thread still alive, held up in the file I/O of _write_batch (its
\* other steps do not block: get returns at once when a batch is queued).
CloseJoinTimeout ==
    /\ closePc = "joining"
    /\ writerPc = "write"
    /\ closePc' = "returned"
    /\ UNCHANGED <<buffer, write_queue, closed, logFile, writerPc, writerBatch, accepted>>

\* _writer_loop, line 106: the loop condition.
WriterTest ==
    /\ writerPc = "test"
    /\ writerPc' = IF ~closed \/ write_queue # <<>> THEN "get" ELSE "ended"
    /\ UNCHANGED <<buffer, write_queue, closed, logFile, writerBatch, closePc, accepted>>

\* _writer_loop, line 108: get takes the oldest batch.
WriterGet ==
    /\ writerPc = "get"
    /\ write_queue # <<>>
    /\ writerBatch' = Head(write_queue)
    /\ write_queue' = Tail(write_queue)
    /\ writerPc' = "write"
    /\ UNCHANGED <<buffer, closed, logFile, closePc, accepted>>

\* _writer_loop, lines 108-111: get times out on an empty queue; queue.Empty
\* is caught and the loop goes on.
WriterGetTimeout ==
    /\ writerPc = "get"
    /\ write_queue = <<>>
    /\ writerPc' = "test"
    /\ UNCHANGED <<buffer, write_queue, closed, logFile, writerBatch, closePc, accepted>>

\* _write_batch appends the batch's records to the file.
WriterWrite ==
    /\ writerPc = "write"
    /\ logFile' = logFile \o writerBatch
    /\ writerBatch' = <<>>
    /\ writerPc' = "test"
    /\ UNCHANGED <<buffer, write_queue, closed, closePc, accepted>>

\* _write_batch raises (the file cannot be opened or written); line 110
\* catches the exception and the batch is gone.
WriterWriteFails ==
    /\ writerPc = "write"
    /\ writerBatch' = <<>>
    /\ writerPc' = "test"
    /\ UNCHANGED <<buffer, write_queue, closed, logFile, closePc, accepted>>

InitSink ==
    /\ buffer = <<>>
    /\ write_queue = <<>>
    /\ closed = FALSE
    /\ logFile = <<>>
    /\ writerPc = "test"
    /\ writerBatch = <<>>
    /\ closePc = "open"
    /\ accepted = <<>>

(***************************************************************************)
(* AlertEngine.  Times are whole seconds; metric values are hundredths.    *)
(***************************************************************************)
\* time.time() returns a value in 0..MaxTime; an evaluation starts only while
\* fewer than MaxAlerts alerts have been produced.
MaxTime == 4

MaxAlerts == 2

\* deque(maxlen=1000)
history_maxlen == 1000

EvalThreads == {1, 2}

\* self.rules: the condition of a rule is "value > threshold".
Rules ==
    << [name |-> "high_latency", metric |-> "latency", threshold |-> 50,
        cooldown_seconds |-> 3, min_samples |-> 10],
       [name |-> "error_rate", metric |-> "errors", threshold |-> 50,
        cooldown_seconds |-> 2, min_samples |-> 11] >>

MetricKeys == {"latency", "errors"}

\* What an evaluation is told about one metric: its value and its sample count
\* (10 is min_samples of the first rule and one less than that of the second).
MetricReadings ==
    { [value |-> 60, count |-> 10], [value |-> 60, count |-> 11],
      [value |-> 20, count |-> 11] }

\* sample_counts.get(rule.metric, 0)
SampleCount(sample_counts, metric) ==
    IF metric \in DOMAIN sample_counts THEN sample_counts[metric] ELSE 0

Condition(rule, value) == value > rule.threshold

\* self._last_alert.get(rule.name, 0)
LastAlert(last, name) == IF name \in DOMAIN last THEN last[name] ELSE 0

RecordAlertMut(last, name, now) == last

\* self._last_alert[rule.name] = now
RecordAlert(last, name, now) ==
    [n \in DOMAIN last \cup {name} |-> IF n = name THEN now ELSE last[n]]

\* The checks with a sample count that has to exceed min_samples.
FiresMut(rule, metrics, sample_counts, last, now) ==
    /\ rule.metric \in DOMAIN metrics
    /\ SampleCount(sample_counts, rule.metric) > rule.min_samples
    /\ Condition(rule, metrics[rule.metric])
    /\ ~(now - LastAlert(last, rule.name) < rule.cooldown_seconds)

\* Whether the rule passes the checks of lines 259-276.
Fires(rule, metrics, sample_counts, last, now) ==
    /\ rule.metric \in DOMAIN metrics
    /\ ~(SampleCount(sample_counts, rule.metric) < rule.min_samples)
    /\ Condition(rule, metrics[rule.metric])
    /\ ~(now - LastAlert(last, rule.name) < rule.cooldown_seconds)

\* self._alert_history.append(alert) on a deque with maxlen
HistoryAppend(history, alert) ==
    LET h == Append(history, alert)
    IN  IF Len(h) > history_maxlen THEN Tail(h) ELSE h

\* The loop "for rule in self.rules" from rule i on; acc holds _last_alert,
\* _alert_history and the triggered list.
RECURSIVE EvaluateRules(_, _, _, _, _)
EvaluateRules(acc, metrics, sample_counts, now, i) ==
    IF i > Len(Rules) THEN acc
    ELSE LET rule == Rules[i]
         IN  IF Fires(rule, metrics, sample_counts, acc.last, now)
             THEN LET alert == [rule_name |-> rule.name, timestamp |-> now]
                  IN  EvaluateRules([last |-> RecordAlert(acc.last, rule.name, now),
                                     history |-> HistoryAppend(acc.history, alert),
                                     triggered |-> Append(acc.triggered, alert)],
                                    metrics, sample_counts, now, i + 1)
             ELSE EvaluateRules(acc, metrics, sample_counts, now, i + 1)

\* evaluate, line 253: now = time.time(), read before the lock is taken.
EvalReadClock(t) ==
    /\ evalPc[t] = "idle"
    /\ Len(produced) < MaxAlerts
    /\ \E now \in 0..MaxTime : evalNow' = [evalNow EXCEPT ![t] = now]
    /\ evalPc' = [evalPc EXCEPT ![t] = "waiting"]
    /\ UNCHANGED <<last_alert, alert_history, produced, evalSeen>>

\* evaluate, lines 256-300: the rules are evaluated with the lock held.
EvalRules(t) ==
    /\ evalPc[t] = "waiting"
    /\ \E present \in SUBSET MetricKeys : \E readings \in [present -> MetricReadings] :
          LET metrics == [k \in present |-> readings[k].value]
              sample_counts == [k \in present |-> readings[k].count]
              r == EvaluateRules([last |-> last_alert, history |-> alert_history,
                                  triggered |-> <<>>],
                                 metrics, sample_counts, evalNow[t], 1)
          IN  /\ last_alert' = r.last
              /\ alert_history' = r.history
              /\ produced' = produced \o r.triggered
              /\ evalSeen' = [metrics |-> metrics, sample_counts |-> sample_counts,
                              fired |-> {r.triggered[k].rule_name :
                                            k \in 1..Len(r.triggered)}]
    /\ evalPc' = [evalPc EXCEPT ![t] = "idle"]
    /\ UNCHANGED evalNow

InitAlert ==
    /\ last_alert = [n \in {} |-> 0]
    /\ alert_history = <<>>
    /\ produced = <<>>
    /\ evalPc = [t \in EvalThreads |-> "idle"]
    /\ evalNow = [t \in EvalThreads |-> 0]
    /\ evalSeen = NoCall

(***************************************************************************)
(* ABTestRunner.  Allocation fractions and bucket values are in units of   *)
(* 1/10000, the resolution of "hash_val % 10000".                          *)
(***************************************************************************)
\* The number of run calls of a run of the model.
MaxAbRuns == 4

\* hash_val % 10000
Buckets == 10000

\* int(hashlib.md5(str(key).encode()).hexdigest(), 16) % 10000 for the sticky
\* values of the model.
HashBucket(key) ==
    CASE key = "u1" -> 2804
      [] key = "s2" -> 7446
      [] key = "u10" -> 9715
      [] key = "u209" -> 9959

StickyValues == {"u1", "s2", "u10", "u209"}

\* Buckets that the hash of str(np.random.random()) can fall into.
RandomBuckets == {0, 4999, 5000, 9499, 9500, 9899, 9900, 9999}

\* The allocations runners are built with: each sums to 1 within 0.01.
Allocations ==
    { << [name |-> "control", fraction |-> 5000], [name |-> "candidate", fraction |-> 5000] >>,
      << [name |-> "control", fraction |-> 9500], [name |-> "candidate", fraction |-> 500] >>,
      << [name |-> "candidate", fraction |-> 4900], [name |-> "control", fraction |-> 5000] >> }

\* self._ranges[i][1]: the sum of the fractions before entry i
RECURSIVE RangeLow(_, _)
RangeLow(alloc, i) == IF i = 1 THEN 0 ELSE RangeLow(alloc, i - 1) + alloc[i - 1].fraction

\* The loop of _get_bucket over self._ranges from entry i on, with its fallback.
RECURSIVE FindRange(_, _, _)
FindRange(alloc, bucket_val, i) ==
    IF i > Len(alloc) THEN alloc[1].name
    ELSE IF RangeLow(alloc, i) <= bucket_val /\ bucket_val < RangeLow(alloc, i) + alloc[i].fraction
         THEN alloc[i].name
         ELSE FindRange(alloc, bucket_val, i + 1)

StickyBucketMut(context, random_bucket) == random_bucket

\* key = context.get(self.sticky_key, str(np.random.random())), hashed
StickyBucket(context, random_bucket) ==
    IF context.has_key THEN HashBucket(context.value) ELSE random_bucket

\* _get_bucket
GetBucket(alloc, context, random_bucket) ==
    FindRange(alloc, StickyBucket(context, random_bucket), 1)

Contexts == [has_key : {TRUE}, value : StickyValues] \cup {[has_key |-> FALSE]}

Variants == {"control", "candidate"}

\* The run calls made so far.
AbRunsSoFar(m) ==
    m["control"].n_samples + m["control"].errors
    + m["candidate"].n_samples + m["candidate"].errors

\* The run and record_metric calls made so far.
AbCallsSoFar(m) ==
    AbRunsSoFar(m) + m["control"].custom_metrics + m["candidate"].custom_metrics

\* The retention limit of ABTestRunner.run, "if len(metrics.action_values) >
\* 10000", scaled down to a length the calls of a run of the model exceed.
retention_limit == 2

\* ABTestRunner.run: the policy of the assigned variant returns or raises.
AbRun ==
    \E context \in Contexts, random_bucket \in RandomBuckets, policy_raises \in BOOLEAN :
        /\ AbCallsSoFar(ab_metrics) < MaxAbRuns
        /\ LET variant == GetBucket(allocation, context, random_bucket)
               m == ab_metrics[variant]
           IN  /\ ab_metrics' =
                     [ab_metrics EXCEPT ![variant] =
                         IF policy_raises
                         THEN [m EXCEPT !.errors = @ + 1]
                         ELSE [m EXCEPT !.n_samples = @ + 1,
                                        !.retained = IF @ + 1 > retention_limit THEN @ ELSE @ + 1]]
               /\ assigned' = IF context.has_key
                              THEN Append(assigned, <<context.value, variant>>)
                              ELSE assigned
        /\ UNCHANGED allocation

\* ABTestRunner.record_metric(variant, metric_name, value), for one metric
\* name: custom_metrics is the number of values its list holds.
RecordMetric ==
    \E variant \in Variants :
        /\ AbCallsSoFar(ab_metrics) < MaxAbRuns
        /\ ab_metrics' = [ab_metrics EXCEPT ![variant].custom_metrics = @ + 1]
        /\ UNCHANGED <<allocation, assigned>>

InitAb ==
    /\ allocation \in Allocations
    /\ ab_metrics = [v \in Variants |->
                        [n_samples |-> 0, errors |-> 0, retained |-> 0,
                         custom_metrics |-> 0]]
    /\ assigned = <<>>

(***************************************************************************)
(* DeploymentManager.  One thread makes the management calls               *)
(* (start_shadow, start_ab_test, promote) one after the other; another     *)
(* thread calls run.  The manager holds no lock, so promote and run        *)
(* interleave at the level of their attribute reads and writes.            *)
(***************************************************************************)
Policies == {"p0", "p1", "p2"}

NoRunner == [runner |-> None]

\* start_shadow
StartShadow ==
    /\ promotePc = "idle"
    /\ \E candidate \in Policies :
        /\ candidate_policy' = candidate
        /\ shadow_runner' = [production_policy |-> production_policy,
                             candidate_policy |-> candidate]
    /\ current_stage' = "shadow"
    /\ lastCall' = [op |-> "start_shadow", stage_before |-> current_stage,
                    production_before |-> production_policy, outcome |-> "ok"]
    /\ UNCHANGED <<production_policy, ab_runner, promotePc, runPc, runSeen, runOut>>

\* start_ab_test
StartAbTest ==
    /\ promotePc = "idle"
    /\ IF candidate_policy = None
       THEN /\ lastCall' = [op |-> "start_ab_test", stage_before |-> current_stage,
                            production_before |-> production_policy, outcome |-> "RuntimeError"]
            /\ UNCHANGED <<ab_runner, current_stage>>
       ELSE /\ ab_runner' = [control |-> production_policy, candidate |-> candidate_policy]
            /\ current_stage' = "ab_test"
            /\ lastCall' = [op |-> "start_ab_test", stage_before |-> current_stage,
                            production_before |-> production_policy, outcome |-> "ok"]
    /\ UNCHANGED <<production_policy, candidate_policy, shadow_runner, promotePc,
                   runPc, runSeen, runOut>>

\* promote, lines 517-518: the only check promote makes
PromoteCheck ==
    /\ promotePc = "idle"
    /\ IF candidate_policy = None
       THEN /\ lastCall' = [op |-> "promote", stage_before |-> current_stage,
                            production_before |-> production_policy, outcome |-> "RuntimeError"]
            /\ UNCHANGED promotePc
       ELSE /\ lastCall' = [op |-> "promote", stage_before |-> current_stage,
                            production_before |-> production_policy, outcome |-> "running"]
            /\ promotePc' = "l520"
    /\ UNCHANGED <<production_policy, current_stage, candidate_policy, shadow_runner,
                   ab_runner, runPc, runSeen, runOut>>

\* promote, line 520: self.production_policy = self._candidate_policy
PromoteSwap ==
    /\ promotePc = "l520"
    /\ production_policy' = candidate_policy
    /\ promotePc' = "l521"
    /\ UNCHANGED <<current_stage, candidate_policy, shadow_runner, ab_runner, lastCall,
                   runPc, runSeen, runOut>>

\* promote, line 521: self._candidate_policy = None
PromoteClearCandidate ==
    /\ promotePc = "l521"
    /\ candidate_policy' = None
    /\ promotePc' = "l522"
    /\ UNCHANGED <<production_policy, current_stage, shadow_runner, ab_runner, lastCall,
                   runPc, runSeen, runOut>>

\* promote, line 522: self._shadow_runner = None
PromoteClearShadow ==
    /\ promotePc = "l522"
    /\ shadow_runner' = NoRunner
    /\ promotePc' = "l523"
    /\ UNCHANGED <<production_policy, current_stage, candidate_policy, ab_runner, lastCall,
                   runPc, runSeen, runOut>>

\* promote, line 523: self._ab_runner = None
PromoteClearAb ==
    /\ promotePc = "l523"
    /\ ab_runner' = NoRunner
    /\ promotePc' = "l524"
    /\ UNCHANGED <<production_policy, current_stage, candidate_policy, shadow_runner,
                   lastCall, runPc, runSeen, runOut>>

\* promote, line 524: self._current_stage = "production"
PromoteSetStage ==
    /\ promotePc = "l524"
    /\ current_stage' = "production"
    /\ lastCall' = [lastCall EXCEPT !.outcome = "ok"]
    /\ promotePc' = "idle"
    /\ UNCHANGED <<production_policy, candidate_policy, shadow_runner, ab_runner,
                   runPc, runSeen, runOut>>

RunGoto(pc) ==
    /\ runPc' = pc
    /\ UNCHANGED <<runSeen, runOut>>

RunReturn(out) ==
    /\ runPc' = "idle"
    /\ runOut' = out
    /\ UNCHANGED runSeen

\* run is called: what the manager holds at that moment.
RunCall ==
    /\ runPc = "idle"
    /\ runPc' = "l481_stage"
    /\ runSeen' = [production_policy |-> production_policy, current_stage |-> current_stage,
                   promoting |-> promotePc # "idle"]
    /\ runOut' = NoCall
    /\ UNCHANGED <<production_policy, current_stage, candidate_policy, shadow_runner,
                   ab_runner, lastCall, promotePc>>

\* run, line 481: self._current_stage == "shadow"
RunTestShadowStage ==
    /\ runPc = "l481_stage"
    /\ RunGoto(IF current_stage = "shadow" THEN "l481_runner" ELSE "l485_stage")
    /\ UNCHANGED <<production_policy, current_stage, candidate_policy, shadow_runner,
                   ab_runner, lastCall, promotePc>>

\* run, line 481: and self._shadow_runner
RunTestShadowRunner ==
    /\ runPc = "l481_runner"
    /\ RunGoto(IF shadow_runner # NoRunner THEN "l482" ELSE "l485_stage")
    /\ UNCHANGED <<production_policy, current_stage, candidate_policy, shadow_runner,
                   ab_runner, lastCall, promotePc>>

\* run, lines 482-483: self._shadow_runner is read again and its run called;
\* the runner executes the production policy it was built with.
RunShadow ==
    /\ runPc = "l482"
    /\ RunReturn(IF shadow_runner = NoRunner
                 THEN [kind |-> "AttributeError"]
                 ELSE [kind |-> "shadow", policy |-> shadow_runner.production_policy])
    /\ UNCHANGED <<production_policy, current_stage, candidate_policy, shadow_runner,
                   ab_runner, lastCall, promotePc>>

\* run, line 485: self._current_stage == "ab_test"
RunTestAbStage ==
    /\ runPc = "l485_stage"
    /\ RunGoto(IF current_stage = "ab_test" THEN "l485_runner" ELSE "l490")
    /\ UNCHANGED <<production_policy, current_stage, candidate_policy, shadow_runner,
                   ab_runner, lastCall, promotePc>>

\* run, line 485: and self._ab_runner
RunTestAbRunner ==
    /\ runPc = "l485_runner"
    /\ RunGoto(IF ab_runner # NoRunner THEN "l486" ELSE "l490")
    /\ UNCHANGED <<production_policy, current_stage, candidate_policy, shadow_runner,
                   ab_runner, lastCall, promotePc>>

\* run, lines 486-487: self._ab_runner is read again and its run called; the
\* runner executes the policy of the variant the context hashes to.
RunAb ==
    /\ runPc = "l486"
    /\ \E variant \in Variants :
          RunReturn(IF ab_runner = NoRunner
                    THEN [kind |-> "AttributeError"]
                    ELSE [kind |-> "ab_test", policy |-> ab_runner[variant]])
    /\ UNCHANGED <<production_policy, current_stage, candidate_policy, shadow_runner,
                   ab_runner, lastCall, promotePc>>

\* run, line 490: return self.production_policy(observation)
RunProduction ==
    /\ runPc = "l490"
    /\ RunReturn([kind |-> "production", policy |-> production_policy])
    /\ UNCHANGED <<production_policy, current_stage, candidate_policy, shadow_runner,
                   ab_runner, lastCall, promotePc>>

InitDeploy ==
    /\ production_policy = "p0"
    /\ current_stage = "production"
    /\ candidate_policy = None
    /\ shadow_runner = NoRunner
    /\ ab_runner = NoRunner
    /\ lastCall = NoCall
    /\ promotePc = "idle"
    /\ runPc = "idle"
    /\ runSeen = NoCall
    /\ runOut = NoCall

(***************************************************************************)
(* Conformal predictors (foundations/conformal.py).  Nonconformity scores  *)
(* and quantiles are in units of 1/10000; coverage and gamma are in        *)
(* hundredths, so gamma * coverage is again in units of 1/10000.           *)
(***************************************************************************)
\* The longest calibration set passed to fit.
MaxCalibration == 2

\* fit, predict and update calls made on one predictor.
MaxConformalCalls == 3

\* ConformalConfig.min_calibration_size of the modelled predictors (the
\* default of line 23 is 100).
min_calibration_size == 2

\* ConformalConfig.score_clip_percentile
score_clip_percentile == 99

\* "if len(cls_scores) < 10" in MondrianConformalPredictor.fit
min_class_samples == 10

\* float("inf")
INF == 1000000

PredictorKinds == {"split", "adaptive", "mondrian"}

\* ConformalConfig.coverage
Coverages == {50, 90}

\* AdaptiveConformalPredictor gamma (the default 0.01, and 0.5)
Gammas == {1, 50}

Classes == {0, 1}

ScoreValues == {0, 1200, 6000}

NoLabels == <<-1>>

\* Inserts x into the ascending sequence s.
RECURSIVE Insert(_, _)
Insert(x, s) ==
    IF s = <<>> THEN <<x>>
    ELSE IF x <= Head(s) THEN <<x>> \o s
    ELSE <<Head(s)>> \o Insert(x, Tail(s))

RECURSIVE Sorted(_)
Sorted(s) == IF s = <<>> THEN <<>> ELSE Insert(Head(s), Sorted(Tail(s)))

\* np.quantile(scores, num/den) and np.percentile: linear interpolation between
\* the order statistics around position (num/den) * (n - 1).
Quantile(scores, num, den) ==
    LET s   == Sorted(scores)
        pos == num * (Len(s) - 1)
        lo  == pos \div den
        rem == pos % den
    IN  IF rem = 0 THEN s[lo + 1]
        ELSE s[lo + 1] + ((s[lo + 2] - s[lo + 1]) * rem) \div den

compute_quantile(scores, coverage) ==
    LET n == Len(scores)
    IN  IF n = 0 THEN INF
        ELSE Quantile(scores, Min(coverage * (n + 1), 100 * n), 100 * n)

\* np.clip(scores, None, clip_value)
ClipAbove(scores, clip_value) == [i \in 1..Len(scores) |-> Min(scores[i], clip_value)]

\* SplitConformalPredictor.fit, lines 143-146
SplitQuantile(scores, coverage) ==
    compute_quantile(ClipAbove(scores, Quantile(scores, score_clip_percentile, 100)), coverage)

\* scores[labels == cls]
RECURSIVE ClassScores(_, _, _)
ClassScores(scores, labels, cls) ==
    IF scores = <<>> THEN <<>>
    ELSE (IF Head(labels) = cls THEN <<Head(scores)>> ELSE <<>>)
         \o ClassScores(Tail(scores), Tail(labels), cls)

\* MondrianConformalPredictor.fit, lines 360-371
MondrianQuantiles(scores, labels, coverage) ==
    [cls \in {labels[i] : i \in 1..Len(labels)} |->
        IF Len(ClassScores(scores, labels, cls)) < min_class_samples
        THEN compute_quantile(scores, coverage)
        ELSE compute_quantile(ClassScores(scores, labels, cls), coverage)]

\* The result predict returns while the predictor is not calibrated.
NotCalibrated(coverage) ==
    [prediction_set |-> {}, set_size |-> 0, coverage_probability |-> coverage,
     quantile |-> INF, is_valid |-> FALSE]

\* np.where(sample_scores <= quantile)[0]; class c has score sample_scores[c + 1].
PredictionSet(sample_scores, q) == {c \in Classes : sample_scores[c + 1] <= q}

ConformalResult(sample_scores, q, coverage) ==
    [prediction_set |-> PredictionSet(sample_scores, q),
     set_size |-> Cardinality(PredictionSet(sample_scores, q)),
     coverage_probability |-> coverage, quantile |-> q, is_valid |-> TRUE]

RECURSIVE SetSum(_, _)
SetSum(f, S) == IF S = {} THEN 0 ELSE LET x == CHOOSE y \in S : TRUE
                                      IN  f[x] + SetSum(f, S \ {x})

\* np.mean(list(class_quantiles.values()))
MeanQuantile(cq) == SetSum(cq, DOMAIN cq) \div Cardinality(DOMAIN cq)

\* class_quantiles.get(cls, default)
ClassQuantile(cq, cls, default) == IF cls \in DOMAIN cq THEN cq[cls] ELSE default

\* MondrianConformalPredictor.predict, lines 414-438
MondrianResult(sample_scores, cq, coverage) ==
    LET set == {c \in Classes : sample_scores[c + 1] <= ClassQuantile(cq, c, MeanQuantile(cq))}
        known == [c \in set |-> ClassQuantile(cq, c, 0)]
    IN  [prediction_set |-> set, set_size |-> Cardinality(set),
         coverage_probability |-> coverage,
         quantile |-> IF set = {} THEN 0 ELSE SetSum(known, set) \div Cardinality(set),
         is_valid |-> TRUE]

\* The update with its two step sizes exchanged.
UpdateQuantileMut(q, gamma, target, covered) ==
    Max(0, IF covered THEN q - gamma * target ELSE q + gamma * (100 - target))

\* AdaptiveConformalPredictor.update, lines 275-280
UpdateQuantile(q, gamma, target, covered) ==
    Max(0, IF covered THEN q - gamma * (100 - target) ELSE q + gamma * target)

NoCalibration == [calibrated |-> FALSE]

\* What a call does to the ghost variables: one more call, its outcome in cpOut.
Called(out) == cpCalls' = cpCalls + 1 /\ cpOut' = out

\* fit on too few scores (or, for mondrian, without usable labels) raises.
FitRaises(scores, labels) ==
    IF cp_config.kind = "mondrian"
    THEN labels = NoLabels \/ Len(scores) # Len(labels)
    ELSE Len(scores) < min_calibration_size

\* fit(nonconformity_scores, labels)
Fit ==
    /\ cpCalls < MaxConformalCalls
    /\ \E n \in 0..MaxCalibration :
       \E scores \in [1..n -> ScoreValues],
          labels \in {NoLabels} \cup [1..n -> Classes] \cup {[i \in 1..(n + 1) |-> 0]} :
          IF FitRaises(scores, labels)
          THEN /\ Called([op |-> "fit", raised |-> TRUE])
               /\ UNCHANGED <<calibration, cp_quantile, n_updates, class_quantiles, nFits>>
          ELSE /\ nFits' = nFits + 1
               /\ Called([op |-> "fit", raised |-> FALSE, calibration_id |-> nFits + 1,
                          n |-> Len(scores)])
               /\ CASE cp_config.kind = "split" ->
                         /\ calibration' =
                               [calibrated |-> TRUE, calibration_id |-> nFits + 1,
                                quantile |-> SplitQuantile(scores, cp_config.coverage),
                                coverage |-> cp_config.coverage, n_samples |-> Len(scores)]
                         /\ UNCHANGED <<cp_quantile, n_updates, class_quantiles>>
                    [] cp_config.kind = "adaptive" ->
                         /\ cp_quantile' = compute_quantile(scores, cp_config.coverage)
                         /\ n_updates' = 0
                         /\ UNCHANGED <<calibration, class_quantiles>>
                    [] cp_config.kind = "mondrian" ->
                         /\ class_quantiles' =
                               MondrianQuantiles(scores, labels, cp_config.coverage)
                         /\ UNCHANGED <<calibration, cp_quantile, n_updates>>
    /\ UNCHANGED cp_config

\* predict(scores) on one sample
Predict ==
    /\ cpCalls < MaxConformalCalls
    /\ \E sample_scores \in [1..Cardinality(Classes) -> ScoreValues] :
          Called([op |-> "predict", fits |-> nFits, raised |-> FALSE,
                  result |->
                     CASE cp_config.kind = "split" ->
                            IF ~calibration.calibrated
                            THEN NotCalibrated(cp_config.coverage)
                            ELSE ConformalResult(sample_scores, calibration.quantile,
                                                 calibration.coverage)
                       [] cp_config.kind = "adaptive" ->
                            ConformalResult(sample_scores, cp_quantile, cp_config.coverage)
                       [] cp_config.kind = "mondrian" ->
                            IF DOMAIN class_quantiles = {}
                            THEN NotCalibrated(cp_config.coverage)
                            ELSE MondrianResult(sample_scores, class_quantiles,
                                                cp_config.coverage)])
    /\ UNCHANGED <<cp_config, calibration, cp_quantile, n_updates, class_quantiles, nFits>>

\* AdaptiveConformalPredictor.update(true_label, prediction_set)
Update ==
    /\ cpCalls < MaxConformalCalls
    /\ cp_config.kind = "adaptive"
    /\ \E true_label \in Classes, prediction_set \in SUBSET Classes :
          /\ cp_quantile' = UpdateQuantile(cp_quantile, cp_config.gamma, cp_config.coverage,
                                           true_label \in prediction_set)
          /\ Called([op |-> "update", covered |-> true_label \in prediction_set,
                     before |-> cp_quantile])
    /\ n_updates' = n_updates + 1
    /\ UNCHANGED <<cp_config, calibration, class_quantiles, nFits>>

InitConformal ==
    /\ cp_config \in [kind : PredictorKinds, coverage : Coverages, gamma : Gammas]
    /\ calibration = NoCalibration
    /\ cp_quantile = 0
    /\ n_updates = 0
    /\ class_quantiles = [c \in {} |-> 0]
    /\ nFits = 0
    /\ cpCalls = 0
    /\ cpOut = NoCall

IdleConformal == InitConformal /\ cp_config = [kind |-> "split", coverage |-> 90, gamma |-> 1]

(***************************************************************************)
(* TTCMonitor (safety/monitors.py), constant-velocity model on one axis.   *)
(* Positions are metres, velocities metres per second, times milliseconds, *)
(* severities hundredths.                                                  *)
(***************************************************************************)
\* check calls made on one monitor.
MaxChecks == 4

\* Objects in the state passed to one check call.
MaxObjects == 2

\* TTCConfig.critical_ttc
critical_ttc == 1000

\* TTCConfig.warning_ttc
warning_ttc == 3000

\* TTCConfig.debounce_steps of the modelled monitors (the default is 3).
DebounceSteps == 0..3

\* The ego vehicle of every modelled state: at the origin, 10 m/s.
EgoPosition == 0

EgoVelocity == 10

\* Tracked objects: 5 m ahead and standing (0.5 s), 20 m ahead and standing
\* (2 s), 20 m ahead and pulling away (never).
TrackedObjects ==
    { [object_id |-> "near", position |-> 5, velocity |-> 0],
      [object_id |-> "mid", position |-> 20, velocity |-> 0],
      [object_id |-> "away", position |-> 20, velocity |-> 20] }

\* constant_velocity_ttc with min_closing_velocity = 0.1: on one axis the
\* closing velocity is the relative velocity signed by the side the object is on.
constant_velocity_ttc(ego_pos, ego_vel, obj_pos, obj_vel) ==
    LET rel_pos  == obj_pos - ego_pos
        distance == Abs(rel_pos)
        closing_velocity == IF rel_pos < 0 THEN obj_vel - ego_vel ELSE ego_vel - obj_vel
    IN  IF distance = 0 THEN 0
        ELSE IF 10 * closing_velocity < 1 THEN INF
        ELSE Max(0, (distance * 1000) \div closing_velocity)

\* check, lines 305-312
RECURSIVE MinTtc(_)
MinTtc(objects) ==
    IF objects = <<>> THEN INF
    ELSE Min(constant_velocity_ttc(EgoPosition, EgoVelocity,
                                   Head(objects).position, Head(objects).velocity),
             MinTtc(Tail(objects)))

\* check, lines 315-321
TtcSeverity(min_ttc) ==
    IF min_ttc >= warning_ttc THEN 0
    ELSE IF min_ttc <= 0 THEN 100
    ELSE Min(Max(100 - (min_ttc * 100) \div warning_ttc, 0), 100)

\* check, lines 327-329
PushTrigger(history, triggered, steps) ==
    LET h == Append(history, triggered)
    IN  IF Len(h) > steps THEN Tail(h) ELSE h

TriggerCount(history) == Cardinality({i \in 1..Len(history) : history[i]})

\* check, lines 332-336
FinalTriggered(history, triggered, steps) ==
    IF steps > 1
    THEN TriggerCount(history) > Len(history) \div 2
    ELSE triggered

\* TTCMonitor.check(state)
Check ==
    /\ Len(ttcChecks) < MaxChecks
    /\ \E n \in 0..MaxObjects : \E objects \in [1..n -> TrackedObjects] :
          IF objects = <<>>
          THEN /\ ttcOut' = [had_objects |-> FALSE, triggered |-> FALSE, severity |-> 0,
                             critical |-> FALSE]
               /\ ttcChecks' = Append(ttcChecks, FALSE)
               /\ UNCHANGED trigger_history
          ELSE LET min_ttc   == MinTtc(objects)
                   triggered == min_ttc < critical_ttc
                   history   == PushTrigger(trigger_history, triggered, debounce_steps)
               IN  /\ trigger_history' = history
                   /\ ttcOut' = [had_objects |-> TRUE,
                                 triggered |-> FinalTriggered(history, triggered,
                                                              debounce_steps),
                                 severity |-> TtcSeverity(min_ttc),
                                 critical |-> triggered]
                   /\ ttcChecks' = Append(ttcChecks, triggered)
    /\ UNCHANGED debounce_steps

InitTtc ==
    /\ debounce_steps \in DebounceSteps
    /\ trigger_history = <<>>
    /\ ttcOut = NoCall
    /\ ttcChecks = <<>>

IdleTtc == InitTtc /\ debounce_steps = 3

(***************************************************************************)
(* AutoPromoter (evaluation/deployment.py).  Latencies are tenths of a     *)
(* millisecond, metric means hundredths; the quotients of evaluate are     *)
(* compared by cross-multiplication, which is exact.                       *)
(***************************************************************************)
\* PromotionCriteria.min_samples of the modelled promoter (the default is 1000).
min_samples == 100

\* PromotionCriteria.max_latency_increase_pct
max_latency_increase_pct == 20

VariantNames == {"control", "candidate"}

NoMean == <<>>

\* One variant's entry of ABTestRunner.get_metrics(): custom_metrics holds the
\* mean of the metric "collisions", or nothing when no value was recorded.
VariantMetrics(n, p95, errs, mean) ==
    [n_samples |-> n, p95_latency_ms |-> p95, errors |-> errs, collisions |-> mean]

ControlMetrics ==
    { VariantMetrics(100, p95, 0, mean) : p95 \in {0, 100}, mean \in {NoMean, <<100>>, <<-100>>} }

CandidateMetrics ==
    { VariantMetrics(x[1], x[2], x[3], x[4]) :
        x \in {99, 100} \X {100, 120, 121} \X {0, 1, 2} \X
              {NoMean, <<50>>, <<110>>, <<111>>, <<-105>>} }

\* PromotionCriteria.required_metrics
RequiredMetrics == { <<>>, <<"collisions">> }

\* evaluate, lines 354-362
LatencyOk(control, candidate) ==
    IF control.p95_latency_ms > 0
    THEN (candidate.p95_latency_ms - control.p95_latency_ms) * 100
            <= max_latency_increase_pct * control.p95_latency_ms
    ELSE 0 <= max_latency_increase_pct

\* evaluate, lines 375-388: "candidate_mean > control_mean * 1.1"
Regression(control, candidate) ==
    /\ control.collisions # NoMean
    /\ candidate.collisions # NoMean
    /\ candidate.collisions[1] * 10 > control.collisions[1] * 11

\* evaluate, lines 374-397: whether the loop over required_metrics returns False.
RECURSIVE AnyRegression(_, _, _)
AnyRegression(required, control, candidate) ==
    IF required = <<>> THEN FALSE
    ELSE IF Regression(control, candidate) THEN TRUE
    ELSE AnyRegression(Tail(required), control, candidate)

\* The error check with a strict bound: a rate of exactly 1% is refused.
ErrorRateOkMut(candidate) ==
    ~(candidate.errors > 0 /\ candidate.errors * 100 >= Max(1, candidate.n_samples))

\* evaluate, lines 400-407: "error_rate > 0.01" refuses
ErrorRateOk(candidate) ==
    ~(candidate.errors > 0 /\ candidate.errors * 100 > Max(1, candidate.n_samples))

\* AutoPromoter.evaluate(metrics, "candidate"): should_promote
ShouldPromote(metrics, required) ==
    IF ~({"control", "candidate"} \subseteq DOMAIN metrics) THEN FALSE
    ELSE IF metrics["candidate"].n_samples < min_samples THEN FALSE
    ELSE IF ~LatencyOk(metrics["control"], metrics["candidate"]) THEN FALSE
    ELSE IF AnyRegression(required, metrics["control"], metrics["candidate"]) THEN FALSE
    ELSE ErrorRateOk(metrics["candidate"])

\* One evaluate call; its arguments and result are kept in promoterIn, promoterOut.
Evaluate ==
    /\ promoterOut = NoCall
    /\ \E present \in SUBSET VariantNames, control \in ControlMetrics,
          candidate \in CandidateMetrics, required \in RequiredMetrics :
          LET metrics == [v \in present |-> IF v = "control" THEN control ELSE candidate]
          IN  /\ promoterIn' = [metrics |-> metrics, required_metrics |-> required]
              /\ promoterOut' = [should_promote |-> ShouldPromote(metrics, required)]

InitPromoter ==
    /\ promoterIn = NoCall
    /\ promoterOut = NoCall

(***************************************************************************)
(* ShadowRunner (evaluation/deployment.py).  Actions are integer vectors;  *)
(* the modelled actions are zero in all but one coordinate, where the      *)
(* Euclidean norm of a difference is the absolute difference.              *)
(***************************************************************************)
\* run calls made on one runner.
MaxShadowRuns == 3

\* "if len(self._divergence_history) > 10000"
divergence_retention == 10000

ShadowObservations == {0, 1}

\* shadow_fraction and the values np.random.random() returns, in hundredths.
ShadowFractions == {0, 50, 100}

RandomDraws == {0, 50, 99}

\* What the candidate policy does when called: return the production action,
\* another action of the same shape, an action of another shape, or raise.
CandidateBehaviours == {"agrees", "differs", "other_shape", RAISES}

ProductionPolicy(observation) == <<0, observation + 1>>

CandidatePolicy(behaviour, observation) ==
    CASE behaviour = "agrees" -> <<0, observation + 1>>
      [] behaviour = "differs" -> <<0, observation + 3>>
      [] behaviour = "other_shape" -> <<0, observation + 1, 0>>

\* np.zeros_like(production_action)
ZerosLike(action) == [i \in 1..Len(action) |-> 0]

\* Whether numpy can subtract two one-dimensional arrays (broadcasting).
Broadcastable(a, b) == Len(a) = Len(b) \/ Len(a) = 1 \/ Len(b) = 1

\* np.linalg.norm(a - b) for vectors of one length.
Divergence(a, b) == SeqSum([i \in 1..Len(a) |-> Abs(a[i] - b[i])])

\* self._divergence_history.append(divergence), with the retention limit
AppendDivergence(history, divergence) ==
    LET h == Append(history, divergence)
    IN  IF Len(h) > divergence_retention THEN Tail(h) ELSE h

\* ShadowRunner.run(observation)
ShadowRun ==
    /\ shadowCalls < MaxShadowRuns
    /\ shadowCalls' = shadowCalls + 1
    /\ \E observation \in ShadowObservations, behaviour \in CandidateBehaviours,
          draw \in RandomDraws :
          LET production_action == ProductionPolicy(observation)
              runs_shadow   == draw < shadow_fraction
              shadow_raises == runs_shadow /\ behaviour = RAISES
              shadow_action == IF runs_shadow /\ ~shadow_raises
                               THEN CandidatePolicy(behaviour, observation)
                               ELSE ZerosLike(production_action)
              seen == [observation |-> observation, behaviour |-> behaviour,
                       runs_shadow |-> runs_shadow, errors_before |-> n_shadow_errors]
          IN  /\ n_shadow_runs' = IF runs_shadow /\ ~shadow_raises
                                  THEN n_shadow_runs + 1 ELSE n_shadow_runs
              /\ n_shadow_errors' = IF shadow_raises
                                    THEN n_shadow_errors + 1 ELSE n_shadow_errors
              /\ IF Broadcastable(production_action, shadow_action)
                 THEN /\ divergence_history' =
                            AppendDivergence(divergence_history,
                                             Divergence(production_action, shadow_action))
                      /\ shadowOut' =
                            [seen |-> seen, raised |-> FALSE,
                             production_action |-> production_action,
                             shadow_action |-> shadow_action,
                             divergence_score |-> Divergence(production_action, shadow_action),
                             shadow_error |-> shadow_raises]
                 ELSE \* line 129 raises ValueError outside the error boundary
                      /\ shadowOut' = [seen |-> seen, raised |-> TRUE]
                      /\ UNCHANGED divergence_history
    /\ UNCHANGED <<shadow_fraction, statsOut>>

\* ShadowRunner.get_statistics(); error_rate is the quotient num / den.
GetStatistics ==
    /\ statsOut' =
          IF divergence_history = <<>>
          THEN [n_runs |-> 0, n_errors |-> 0, error_rate |-> [num |-> 0, den |-> 1]]
          ELSE [n_runs |-> n_shadow_runs, n_errors |-> n_shadow_errors,
                error_rate |-> [num |-> n_shadow_errors, den |-> Max(1, n_shadow_runs)]]
    /\ UNCHANGED <<shadow_fraction, n_shadow_runs, n_shadow_errors, divergence_history,
                   shadowCalls, shadowOut>>

InitShadow ==
    /\ shadow_fraction \in ShadowFractions
    /\ n_shadow_runs = 0
    /\ n_shadow_errors = 0
    /\ divergence_history = <<>>
    /\ shadowCalls = 0
    /\ shadowOut = NoCall
    /\ statsOut = NoCall

IdleShadow == InitShadow /\ shadow_fraction = 100

(***************************************************************************)
(* ReplayEngine (runtime/logging.py), built from the records the logger's  *)
(* sink holds.                                                             *)
(***************************************************************************)
\* (r.trace_id, r.step_number) <= (q.trace_id, q.step_number)
KeyLeq(r, q) ==
    r.trace_id < q.trace_id \/ (r.trace_id = q.trace_id /\ r.step_number <= q.step_number)

RECURSIVE InsertRecord(_, _)
InsertRecord(r, s) ==
    IF s = <<>> THEN <<r>>
    ELSE IF KeyLeq(Head(s), r) THEN <<Head(s)>> \o InsertRecord(r, Tail(s))
    ELSE <<r>> \o s

\* sorted(records, key=lambda r: (r.trace_id, r.step_number)): a stable sort
RECURSIVE SortRecords(_)
SortRecords(records) ==
    IF records = <<>> THEN <<>>
    ELSE InsertRecord(records[Len(records)], SortRecords(SubSeq(records, 1, Len(records) - 1)))

\* replay, lines 431-452: the result of one record when a policy is given
ReplayStep(record) ==
    IF PolicyRaises(record.observation)
    THEN [step |-> record.step_number, trace_id |-> record.trace_id, policy_error |-> TRUE]
    ELSE [step |-> record.step_number, trace_id |-> record.trace_id, policy_error |-> FALSE,
          new_action |-> Policy(record.observation),
          action_divergence |-> Divergence(Policy(record.observation), record.action_taken)]

\* compute_divergence, lines 490-496: the divergences of the records the policy
\* does not raise on
RECURSIVE Divergences(_)
Divergences(records) ==
    IF records = <<>> THEN <<>>
    ELSE (IF PolicyRaises(Head(records).observation) THEN <<>>
          ELSE <<Divergence(Policy(Head(records).observation), Head(records).action_taken)>>)
         \o Divergences(Tail(records))

\* ReplayEngine(records).replay(policy)
Replay ==
    /\ replayOut' = [op |-> "replay",
                     results |-> [i \in 1..Len(sinkRecords) |->
                                     ReplayStep(SortRecords(sinkRecords)[i])]]
    /\ UNCHANGED <<log_all, field_filters, trace_id, step_number, previous_state,
                   sinkRecords, lastLog, nTraces>>

\* ReplayEngine(records).compute_divergence(policy): mean, max and n_samples
ComputeDivergence ==
    /\ LET divergences == Divergences(SortRecords(sinkRecords))
       IN  replayOut' =
              IF divergences = <<>>
              THEN [op |-> "compute_divergence", mean |-> 0, max |-> 0, n_samples |-> 0]
              ELSE [op |-> "compute_divergence",
                    mean |-> SeqSum(divergences) \div Len(divergences),
                    max |-> SeqMax(divergences), n_samples |-> Len(divergences)]
    /\ UNCHANGED <<log_all, field_filters, trace_id, step_number, previous_state,
                   sinkRecords, lastLog, nTraces>>

(***************************************************************************)
(* OODEnsemble (runtime/ood.py).  Scores and thresholds are in units of    *)
(* 1/60; weights are kept as the integers passed to the constructor, the   *)
(* normalisation "w / weight_sum" being applied where a weight is used.    *)
(***************************************************************************)
\* Detectors of one ensemble.
MaxDetectors == 2

\* 1.0 in the unit of the scores.
OodUnit == 6 * 10

\* What detector.score returns: EnergyBasedDetector returns a negative energy,
\* the distance and divergence detectors return values >= 0.
DetectorScores == {-120, 0, 120}

\* The outcome that stands for a score call that raises.
Fails == 1000

DetectorOutcomes == DetectorScores \cup {Fails}

RawWeights == {1, 3}

\* self.threshold: the default 0.5, and a threshold calibrated on energy scores.
OodThresholds == {-30, 30}

CombinationMethods == {"weighted_mean", "max", "vote", "sum"}

\* score, lines 317-333: the (weight, score) pairs; a detector that raised
\* contributes (0.0, 0.0).
WeightedScores(weights, outcomes) ==
    [i \in 1..Len(outcomes) |->
        IF outcomes[i] = Fails THEN [w |-> 0, s |-> 0]
        ELSE [w |-> weights[i], s |-> outcomes[i]]]

\* component_scores: detector i is named by its position.
ComponentScores(outcomes) ==
    [i \in 1..Len(outcomes) |-> IF outcomes[i] = Fails THEN 0 ELSE outcomes[i]]

\* sum(w * s for w, s in weighted_scores), times weight_sum
WeightedTotal(pairs) == SeqSum([i \in 1..Len(pairs) |-> pairs[i].w * pairs[i].s])

\* score, lines 336-348
Combine(method, pairs, weights, threshold) ==
    CASE method = "weighted_mean" ->
           IF SeqSum([i \in 1..Len(pairs) |-> pairs[i].w]) > 0
           THEN WeightedTotal(pairs) \div SeqSum([i \in 1..Len(pairs) |-> pairs[i].w])
           ELSE 0
      [] method = "max" -> SeqMax([i \in 1..Len(pairs) |-> pairs[i].s])
      [] method = "vote" ->
           (Cardinality({i \in 1..Len(pairs) : pairs[i].s > threshold}) * OodUnit)
              \div Len(weights)
      [] OTHER -> WeightedTotal(pairs) \div SeqSum(weights)

\* max(component_scores.keys(), key=...): the first detector with the largest score
Contributing(scores) ==
    CHOOSE i \in 1..Len(scores) :
        /\ \A j \in 1..Len(scores) : scores[j] <= scores[i]
        /\ \A j \in 1..(i - 1) : scores[j] < scores[i]

\* OODEnsemble.score(inputs)
Score ==
    /\ \E outcomes \in [1..Len(ood_config.weights) -> DetectorOutcomes] :
          LET ensemble_score ==
                  Combine(ood_config.combination_method,
                          WeightedScores(ood_config.weights, outcomes),
                          ood_config.weights, ood_config.threshold)
          IN  oodOut' = [outcomes |-> outcomes, raised |-> FALSE,
                         ensemble_score |-> ensemble_score,
                         component_scores |-> ComponentScores(outcomes),
                         is_ood |-> ensemble_score > ood_config.threshold,
                         contributing_detector |-> Contributing(ComponentScores(outcomes))]
    /\ UNCHANGED ood_config

OodConfigs ==
    UNION { [weights : [1..n -> RawWeights], threshold : OodThresholds,
             combination_method : CombinationMethods] : n \in 1..MaxDetectors }

InitOod ==
    /\ ood_config \in OodConfigs
    /\ oodOut = NoCall

IdleOod ==
    /\ ood_config = [weights |-> <<1>>, threshold |-> 30, combination_method |-> "weighted_mean"]
    /\ oodOut = NoCall

(***************************************************************************)
(* A MitigationController whose monitors are a ConstraintMonitor and one   *)
(* other monitor.  Limits and metric values are whole numbers chosen so    *)
(* that (value - limit) / limit is a whole number of hundredths.           *)
(***************************************************************************)
\* self.limit of the monitor (positive).
Limits == {10, 100}

\* state.get(self.metric_key, 0.0)
ConstraintValues == {0, 10, 11, 12, 20, 100, 105, 110, 111, 200}

\* The severity the other monitor reports.
OtherSeverities == {0} \cup Severities

\* ConstraintMonitor.check: triggered and the severity, in hundredths.
ConstraintCheck(limit, value) ==
    LET triggered == value > limit
        severity == IF triggered THEN ((value - limit) * 100) \div limit ELSE 0
    IN  [triggered |-> triggered, severity |-> Min(Max(severity, 0), 100)]

\* step of the controller: the two monitors are checked and the if / elif
\* chain is applied to the larger severity.
ConstraintStep ==
    \E limit \in Limits, value \in ConstraintValues, other \in OtherSeverities,
       ood \in OodScores, epi \in EpistemicScores :
        LET output == ConstraintCheck(limit, value)
        IN  cmOut' = [limit |-> limit, value |-> value, other |-> other,
                      ood_score |-> ood, epistemic_score |-> epi,
                      triggered |-> output.triggered, severity |-> output.severity,
                      state |-> NewState(Max(output.severity, other), ood, epi)]

InitConstraint == cmOut = NoCall

(***************************************************************************)
(* SplitConformalPredictor.fit called by two threads on one predictor.     *)
(* The quantile is computed before the lock is taken, the CalibrationData  *)
(* is stored with the lock held, and the calibration_id is read from       *)
(* self._calibration after the lock was released.                          *)
(***************************************************************************)
\* The fit calls of a run of the model.
MaxFitCalls == 3

FitThreads == {1, 2}

\* fit, lines 136-157: the checks, the quantile, and the store under the lock.
FitStore(t) ==
    /\ fitPc[t] \in {"idle", "returned", "raised"}
    /\ fitCalls < MaxFitCalls
    /\ fitCalls' = fitCalls + 1
    /\ \E n \in 1..MaxCalibration : \E scores \in [1..n -> ScoreValues] :
          IF Len(scores) < min_calibration_size
          THEN /\ fitPc' = [fitPc EXCEPT ![t] = "raised"]
               /\ UNCHANGED <<calibration, nFits, fitMine>>
          ELSE /\ calibration' =
                     [calibrated |-> TRUE, calibration_id |-> nFits + 1,
                      quantile |-> SplitQuantile(scores, cp_config.coverage),
                      coverage |-> cp_config.coverage, n_samples |-> Len(scores)]
               /\ nFits' = nFits + 1
               /\ fitMine' = [fitMine EXCEPT ![t] = nFits + 1]
               /\ fitPc' = [fitPc EXCEPT ![t] = "stored"]
    /\ UNCHANGED <<fitRet, cp_config, cp_quantile, n_updates, class_quantiles, cpCalls, cpOut>>

\* fit, line 158: return self._calibration.calibration_id
FitReturn(t) ==
    /\ fitPc[t] = "stored"
    /\ fitRet' = [fitRet EXCEPT ![t] = calibration.calibration_id]
    /\ fitPc' = [fitPc EXCEPT ![t] = "returned"]
    /\ UNCHANGED <<fitMine, fitCalls, conformalVars>>

InitFitRace ==
    /\ fitPc = [t \in FitThreads |-> "idle"]
    /\ fitMine = [t \in FitThreads |-> 0]
    /\ fitRet = [t \in FitThreads |-> 0]
    /\ fitCalls = 0

(***************************************************************************)
(* InterventionLogger.log called by two threads on one logger.  log takes  *)
(* no lock: the attribute reads and writes of two calls interleave, and    *)
(* "self._step_number += 1" is a read followed by a write.                 *)
(***************************************************************************)
\* The log calls of a run of the model.
MaxRaceCalls == 3

LogThreads == {1, 2}

\* log, lines 248-304: should_log is evaluated; a call that is not skipped
\* builds its record from _trace_id, _previous_state and _step_number and hands
\* it to the sink.
LogWrite(t) ==
    /\ logPc[t] = "idle"
    /\ logCalls < MaxRaceCalls
    /\ logCalls' = logCalls + 1
    /\ \E mitigation_state \in LoggedStates, observation \in Observations :
          /\ logArg' = [logArg EXCEPT ![t] = mitigation_state]
          /\ IF ShouldLog(log_all, mitigation_state, previous_state)
             THEN /\ sinkRecords' =
                        Append(sinkRecords,
                               InterventionRecord(mitigation_state, observation,
                                                  Policy(observation)))
                  /\ logPc' = [logPc EXCEPT ![t] = "wrote"]
             ELSE /\ logPc' = [logPc EXCEPT ![t] = "load"]
                  /\ UNCHANGED sinkRecords
    /\ UNCHANGED <<logTmp, logDone, log_all, trace_id, step_number, previous_state, lastLog,
                   nTraces, field_filters, replayOut>>

\* log, line 306: self._previous_state = mitigation_state.value
LogSetPrevious(t) ==
    /\ logPc[t] = "wrote"
    /\ previous_state' = logArg[t]
    /\ logPc' = [logPc EXCEPT ![t] = "load"]
    /\ UNCHANGED <<logArg, logTmp, logCalls, logDone, log_all, trace_id, step_number,
                   sinkRecords, lastLog, nTraces, field_filters, replayOut>>

\* "self._step_number += 1" (lines 256 and 307): the read
LogLoad(t) ==
    /\ logPc[t] = "load"
    /\ logTmp' = [logTmp EXCEPT ![t] = step_number]
    /\ logPc' = [logPc EXCEPT ![t] = "store"]
    /\ UNCHANGED <<logArg, logCalls, logDone, loggerVars>>

\* "self._step_number += 1": the write; the call returns
LogStore(t) ==
    /\ logPc[t] = "store"
    /\ step_number' = NextStepNumber(logTmp[t])
    /\ logPc' = [logPc EXCEPT ![t] = "idle"]
    /\ logDone' = logDone + 1
    /\ UNCHANGED <<logArg, logTmp, logCalls, log_all, trace_id, previous_state, sinkRecords,
                   lastLog, nTraces, field_filters, replayOut>>

InitLogRace ==
    /\ logPc = [t \in LogThreads |-> "idle"]
    /\ logArg = [t \in LogThreads |-> NOMINAL]
    /\ logTmp = [t \in LogThreads |-> 0]
    /\ logCalls = 0
    /\ logDone = 0

(***************************************************************************)
(* RollingStatistics.record called by two threads.  A call reads           *)
(* time.monotonic() before it takes the lock; times are whole seconds.     *)
(***************************************************************************)
\* The largest clock value and the record calls of a run of the model.
MaxClock == 4

MaxRecords == 3

\* window_seconds and max_samples of the modelled instance (the defaults are
\* 60.0 and 10000).
window_seconds == 1

max_samples == 2

RecordThreads == {1, 2}

\* "while self._values and self._values[0][0] < cutoff: popleft()"
RECURSIVE TrimOld(_, _)
TrimOld(values, cutoff) ==
    IF values # <<>> /\ values[1].time < cutoff THEN TrimOld(Tail(values), cutoff)
    ELSE values

\* "while len(self._values) > self.max_samples: popleft()"
RECURSIVE TrimLength(_)
TrimLength(values) ==
    IF Len(values) > max_samples THEN TrimLength(Tail(values)) ELSE values

\* record, line 70: now = time.monotonic(), read before the lock is taken.
RecordReadClock(t) ==
    /\ rsPc[t] = "idle"
    /\ rsTotal + Cardinality({u \in RecordThreads : rsPc[u] = "waiting"}) < MaxRecords
    /\ \E now \in rsClock..MaxClock :
          /\ rsClock' = now
          /\ rsNow' = [rsNow EXCEPT ![t] = now]
    /\ rsPc' = [rsPc EXCEPT ![t] = "waiting"]
    /\ UNCHANGED <<rsValues, rsTotal, rsErrors, rsLast>>

\* record, lines 72-85: the entry is appended and the window trimmed with the
\* lock held.
RecordLocked(t) ==
    /\ rsPc[t] = "waiting"
    /\ \E success \in BOOLEAN :
          rsErrors' = IF success THEN rsErrors ELSE rsErrors + 1
    /\ rsTotal' = rsTotal + 1
    /\ rsValues' =
          TrimLength(TrimOld(Append(rsValues, [time |-> rsNow[t], arrival |-> rsTotal + 1]),
                             rsNow[t] - window_seconds))
    /\ rsLast' = [now |-> rsNow[t]]
    /\ rsPc' = [rsPc EXCEPT ![t] = "idle"]
    /\ UNCHANGED <<rsClock, rsNow>>

InitRolling ==
    /\ rsValues = <<>>
    /\ rsTotal = 0
    /\ rsErrors = 0
    /\ rsClock = 0
    /\ rsPc = [t \in RecordThreads |-> "idle"]
    /\ rsNow = [t \in RecordThreads |-> 0]
    /\ rsLast = NoCall

(***************************************************************************)
(* AlertEngine.evaluate of one thread, a step per call of a user-supplied  *)
(* callable.  self._lock is a threading.Lock, which is not reentrant: a    *)
(* callable that calls get_history, add_rule or evaluate on the engine     *)
(* while the lock is held blocks for ever.                                 *)
(***************************************************************************)
\* The evaluate calls of a run of the model and the channels of each rule.
MaxEvals == 1

NumChannels == 2

\* What channel.send does: return, raise, or call engine.get_history().
ChannelBehaviours == {"returns", RAISES, "reenters"}

\* The channel loop after a send: "except Exception: pass" goes on with the
\* next channel.  The mutation leaves the loop when a send raised.
NextChannelMut(behaviour, j) == IF behaviour = RAISES THEN NumChannels + 1 ELSE j + 1

NextChannel(behaviour, j) == j + 1

\* evaluate, lines 253-256: the time is read and the lock taken.
EvalBegin ==
    /\ dPc \in {"idle", "returned"}
    /\ dEvals < MaxEvals
    /\ dEvals' = dEvals + 1
    /\ \E now \in 0..MaxTime, present \in SUBSET MetricKeys :
       \E readings \in [present -> MetricReadings] :
          dIn' = [metrics |-> [k \in present |-> readings[k].value],
                  sample_counts |-> [k \in present |-> readings[k].count],
                  now |-> now, last |-> last_alert]
    /\ dLock' = TRUE
    /\ dRule' = 1
    /\ dChan' = 1
    /\ dTriggered' = <<>>
    /\ dCalls' = <<>>
    /\ dPc' = "rule"
    /\ UNCHANGED alertVars

\* evaluate, lines 257-276 and 300: the checks of one rule, rule.condition
\* among them, or the end of the loop, where the lock is released.
EvalRule ==
    /\ dPc = "rule"
    /\ IF dRule > Len(Rules)
       THEN /\ dLock' = FALSE
            /\ dPc' = "returned"
            /\ UNCHANGED <<dRule, dChan, dCalls>>
       ELSE LET rule == Rules[dRule]
                condition_called ==
                    /\ rule.metric \in DOMAIN dIn.metrics
                    /\ ~(SampleCount(dIn.sample_counts, rule.metric) < rule.min_samples)
            IN  /\ dCalls' = IF condition_called
                             THEN Append(dCalls, [callable |-> "condition", rule |-> dRule,
                                                  channel |-> 0, behaviour |-> "returns",
                                                  locked |-> dLock])
                             ELSE dCalls
                /\ IF Fires(rule, dIn.metrics, dIn.sample_counts, last_alert, dIn.now)
                   THEN dPc' = "send" /\ dChan' = 1 /\ UNCHANGED dRule
                   ELSE dRule' = dRule + 1 /\ UNCHANGED <<dPc, dChan>>
                /\ UNCHANGED dLock
    /\ UNCHANGED <<dIn, dTriggered, dEvals, alertVars>>

\* evaluate, lines 289-298: one channel.send inside its try, or, after the
\* last channel, the alert is recorded.
EvalSend ==
    /\ dPc = "send"
    /\ IF dChan > NumChannels
       THEN LET rule == Rules[dRule]
                alert == [rule_name |-> rule.name, timestamp |-> dIn.now]
            IN  /\ last_alert' = RecordAlert(last_alert, rule.name, dIn.now)
                /\ alert_history' = HistoryAppend(alert_history, alert)
                /\ dTriggered' = Append(dTriggered, alert)
                /\ dRule' = dRule + 1
                /\ dPc' = "rule"
                /\ UNCHANGED <<dChan, dCalls>>
       ELSE \E behaviour \in ChannelBehaviours :
                /\ dCalls' = Append(dCalls, [callable |-> "send", rule |-> dRule,
                                             channel |-> dChan, behaviour |-> behaviour,
                                             locked |-> dLock])
                /\ IF behaviour = "reenters" /\ dLock
                   THEN dPc' = "deadlocked" /\ UNCHANGED dChan
                   ELSE dChan' = NextChannel(behaviour, dChan) /\ UNCHANGED dPc
                /\ UNCHANGED <<last_alert, alert_history, dTriggered, dRule>>
    /\ UNCHANGED <<dLock, dIn, dEvals, produced, evalPc, evalNow, evalSeen>>

InitDispatch ==
    /\ dLock = FALSE
    /\ dPc = "idle"
    /\ dRule = 1
    /\ dChan = 1
    /\ dIn = NoCall
    /\ dTriggered = <<>>
    /\ dCalls = <<>>
    /\ dEvals = 0

(***************************************************************************)
(* The specifications: one per component.                                  *)
(***************************************************************************)
Init ==
    /\ InitController
    /\ InitFilter
    /\ InitLogger
    /\ InitSink
    /\ InitAlert
    /\ InitAb
    /\ InitDeploy
    /\ InitConformal
    /\ InitTtc
    /\ InitPromoter
    /\ InitShadow
    /\ InitOod
    /\ InitConstraint
    /\ InitFitRace
    /\ InitLogRace
    /\ InitRolling
    /\ InitDispatch

\* The initial values of a component whose specification is not the one checked.
IdleController == InitController /\ monitors = 0

IdleFilter ==
    /\ filterCfg = [box_constraints |-> <<>>, linear_constraints |-> <<>>,
                    cbf_filter |-> None, fallback_action |-> NoVec]
    /\ filterIn = NoCall
    /\ filterOut = NoCall

IdleLogger == InitLogger /\ log_all = FALSE /\ field_filters = {}

IdleAb == InitAb /\ allocation = << [name |-> "control", fraction |-> 5000],
                                    [name |-> "candidate", fraction |-> 5000] >>

NextController ==
    /\ Step
    /\ UNCHANGED <<filterVars, loggerVars, sinkVars, alertVars, abVars, deployVars, conformalVars,
                  ttcVars, promoterVars, shadowVars, oodVars, constraintVars, fitVars, raceVars,
                  rollingVars, dispatchVars>>

InitControllerOnly ==
    InitController /\ IdleFilter /\ IdleLogger /\ InitSink /\ InitAlert /\ IdleAb /\ InitDeploy /\
    IdleConformal /\ IdleTtc /\ InitPromoter /\ IdleShadow /\ IdleOod /\ InitConstraint /\
    InitFitRace /\ InitLogRace /\ InitRolling /\ InitDispatch

SpecController == InitControllerOnly /\ [][NextController]_vars

NextFilter ==
    /\ Filter
    /\ UNCHANGED <<ctrlVars, loggerVars, sinkVars, alertVars, abVars, deployVars, conformalVars,
                  ttcVars, promoterVars, shadowVars, oodVars, constraintVars, fitVars, raceVars,
                  rollingVars, dispatchVars>>

InitFilterOnly ==
    IdleController /\ InitFilter /\ IdleLogger /\ InitSink /\ InitAlert /\ IdleAb /\ InitDeploy /\
    IdleConformal /\ IdleTtc /\ InitPromoter /\ IdleShadow /\ IdleOod /\ InitConstraint /\
    InitFitRace /\ InitLogRace /\ InitRolling /\ InitDispatch

SpecFilter == InitFilterOnly /\ [][NextFilter]_vars

NextLogger ==
    /\ \/ Log
       \/ NewTrace
       \/ Replay
       \/ ComputeDivergence
    /\ UNCHANGED <<ctrlVars, filterVars, sinkVars, alertVars, abVars, deployVars, conformalVars,
                  ttcVars, promoterVars, shadowVars, oodVars, constraintVars, fitVars, raceVars,
                  rollingVars, dispatchVars>>

InitLoggerOnly ==
    IdleController /\ IdleFilter /\ InitLogger /\ InitSink /\ InitAlert /\ IdleAb /\ InitDeploy /\
    IdleConformal /\ IdleTtc /\ InitPromoter /\ IdleShadow /\ IdleOod /\ InitConstraint /\
    InitFitRace /\ InitLogRace /\ InitRolling /\ InitDispatch

SpecLogger == InitLoggerOnly /\ [][NextLogger]_vars

NextSink ==
    /\ \/ SinkWrite
       \/ CloseFlush
       \/ CloseSetClosed
       \/ CloseJoined
       \/ CloseJoinTimeout
       \/ WriterTest
       \/ WriterGet
       \/ WriterGetTimeout
       \/ WriterWrite
       \/ WriterWriteFails
    /\ UNCHANGED <<ctrlVars, filterVars, loggerVars, alertVars, abVars, deployVars, conformalVars,
                  ttcVars, promoterVars, shadowVars, oodVars, constraintVars, fitVars, raceVars,
                  rollingVars, dispatchVars>>

InitSinkOnly ==
    IdleController /\ IdleFilter /\ IdleLogger /\ InitSink /\ InitAlert /\ IdleAb /\ InitDeploy /\
    IdleConformal /\ IdleTtc /\ InitPromoter /\ IdleShadow /\ IdleOod /\ InitConstraint /\
    InitFitRace /\ InitLogRace /\ InitRolling /\ InitDispatch

SpecSink == InitSinkOnly /\ [][NextSink]_vars

NextAlert ==
    /\ \E t \in EvalThreads : EvalReadClock(t) \/ EvalRules(t)
    /\ UNCHANGED <<ctrlVars, filterVars, loggerVars, sinkVars, abVars, deployVars, conformalVars,
                  ttcVars, promoterVars, shadowVars, oodVars, constraintVars, fitVars, raceVars,
                  rollingVars, dispatchVars>>

InitAlertOnly ==
    IdleController /\ IdleFilter /\ IdleLogger /\ InitSink /\ InitAlert /\ IdleAb /\ InitDeploy /\
    IdleConformal /\ IdleTtc /\ InitPromoter /\ IdleShadow /\ IdleOod /\ InitConstraint /\
    InitFitRace /\ InitLogRace /\ InitRolling /\ InitDispatch

SpecAlert == InitAlertOnly /\ [][NextAlert]_vars

NextAb ==
    /\ \/ AbRun
       \/ RecordMetric
    /\ UNCHANGED <<ctrlVars, filterVars, loggerVars, sinkVars, alertVars, deployVars, conformalVars,
                  ttcVars, promoterVars, shadowVars, oodVars, constraintVars, fitVars, raceVars,
                  rollingVars, dispatchVars>>

InitAbOnly ==
    IdleController /\ IdleFilter /\ IdleLogger /\ InitSink /\ InitAlert /\ InitAb /\ InitDeploy /\
    IdleConformal /\ IdleTtc /\ InitPromoter /\ IdleShadow /\ IdleOod /\ InitConstraint /\
    InitFitRace /\ InitLogRace /\ InitRolling /\ InitDispatch

SpecAb == InitAbOnly /\ [][NextAb]_vars

NextDeploy ==
    /\ \/ StartShadow
       \/ StartAbTest
       \/ PromoteCheck
       \/ PromoteSwap
       \/ PromoteClearCandidate
       \/ PromoteClearShadow
       \/ PromoteClearAb
       \/ PromoteSetStage
       \/ RunCall
       \/ RunTestShadowStage
       \/ RunTestShadowRunner
       \/ RunShadow
       \/ RunTestAbStage
       \/ RunTestAbRunner
       \/ RunAb
       \/ RunProduction
    /\ UNCHANGED <<ctrlVars, filterVars, loggerVars, sinkVars, alertVars, abVars, conformalVars,
                  ttcVars, promoterVars, shadowVars, oodVars, constraintVars, fitVars, raceVars,
                  rollingVars, dispatchVars>>

InitDeployOnly ==
    IdleController /\ IdleFilter /\ IdleLogger /\ InitSink /\ InitAlert /\ IdleAb /\ InitDeploy /\
    IdleConformal /\ IdleTtc /\ InitPromoter /\ IdleShadow /\ IdleOod /\ InitConstraint /\
    InitFitRace /\ InitLogRace /\ InitRolling /\ InitDispatch

SpecDeploy == InitDeployOnly /\ [][NextDeploy]_vars

NextConformal ==
    /\ \/ Fit
       \/ Predict
       \/ Update
    /\ UNCHANGED <<ctrlVars, filterVars, loggerVars, sinkVars, alertVars, abVars, deployVars,
                  ttcVars, promoterVars, shadowVars, oodVars, constraintVars, fitVars, raceVars,
                  rollingVars, dispatchVars>>

InitConformalOnly ==
    IdleController /\ IdleFilter /\ IdleLogger /\ InitSink /\ InitAlert /\ IdleAb /\ InitDeploy /\
    InitConformal /\ IdleTtc /\ InitPromoter /\ IdleShadow /\ IdleOod /\ InitConstraint /\
    InitFitRace /\ InitLogRace /\ InitRolling /\ InitDispatch

SpecConformal == InitConformalOnly /\ [][NextConformal]_vars

NextTtc ==
    /\ Check
    /\ UNCHANGED <<ctrlVars, filterVars, loggerVars, sinkVars, alertVars, abVars, deployVars,
                  conformalVars, promoterVars, shadowVars, oodVars, constraintVars, fitVars,
                  raceVars, rollingVars, dispatchVars>>

InitTtcOnly ==
    IdleController /\ IdleFilter /\ IdleLogger /\ InitSink /\ InitAlert /\ IdleAb /\ InitDeploy /\
    IdleConformal /\ InitTtc /\ InitPromoter /\ IdleShadow /\ IdleOod /\ InitConstraint /\
    InitFitRace /\ InitLogRace /\ InitRolling /\ InitDispatch

SpecTtc == InitTtcOnly /\ [][NextTtc]_vars

NextPromoter ==
    /\ Evaluate
    /\ UNCHANGED <<ctrlVars, filterVars, loggerVars, sinkVars, alertVars, abVars, deployVars,
                  conformalVars, ttcVars, shadowVars, oodVars, constraintVars, fitVars, raceVars,
                  rollingVars, dispatchVars>>

InitPromoterOnly ==
    IdleController /\ IdleFilter /\ IdleLogger /\ InitSink /\ InitAlert /\ IdleAb /\ InitDeploy /\
    IdleConformal /\ IdleTtc /\ InitPromoter /\ IdleShadow /\ IdleOod /\ InitConstraint /\
    InitFitRace /\ InitLogRace /\ InitRolling /\ InitDispatch

SpecPromoter == InitPromoterOnly /\ [][NextPromoter]_vars

NextShadow ==
    /\ \/ ShadowRun
       \/ GetStatistics
    /\ UNCHANGED <<ctrlVars, filterVars, loggerVars, sinkVars, alertVars, abVars, deployVars,
                  conformalVars, ttcVars, promoterVars, oodVars, constraintVars, fitVars, raceVars,
                  rollingVars, dispatchVars>>

InitShadowOnly ==
    IdleController /\ IdleFilter /\ IdleLogger /\ InitSink /\ InitAlert /\ IdleAb /\ InitDeploy /\
    IdleConformal /\ IdleTtc /\ InitPromoter /\ InitShadow /\ IdleOod /\ InitConstraint /\
    InitFitRace /\ InitLogRace /\ InitRolling /\ InitDispatch

SpecShadow == InitShadowOnly /\ [][NextShadow]_vars

NextOod ==
    /\ Score
    /\ UNCHANGED <<ctrlVars, filterVars, loggerVars, sinkVars, alertVars, abVars, deployVars,
                  conformalVars, ttcVars, promoterVars, shadowVars, constraintVars, fitVars,
                  raceVars, rollingVars, dispatchVars>>

InitOodOnly ==
    IdleController /\ IdleFilter /\ IdleLogger /\ InitSink /\ InitAlert /\ IdleAb /\ InitDeploy /\
    IdleConformal /\ IdleTtc /\ InitPromoter /\ IdleShadow /\ InitOod /\ InitConstraint /\
    InitFitRace /\ InitLogRace /\ InitRolling /\ InitDispatch

SpecOod == InitOodOnly /\ [][NextOod]_vars

NextConstraint ==
    /\ ConstraintStep
    /\ UNCHANGED <<ctrlVars, filterVars, loggerVars, sinkVars, alertVars, abVars, deployVars,
                  conformalVars, ttcVars, promoterVars, shadowVars, oodVars, fitVars, raceVars,
                  rollingVars, dispatchVars>>

InitConstraintOnly ==
    IdleController /\ IdleFilter /\ IdleLogger /\ InitSink /\ InitAlert /\ IdleAb /\ InitDeploy /\
    IdleConformal /\ IdleTtc /\ InitPromoter /\ IdleShadow /\ IdleOod /\ InitConstraint /\
    InitFitRace /\ InitLogRace /\ InitRolling /\ InitDispatch

SpecConstraint == InitConstraintOnly /\ [][NextConstraint]_vars

NextFitRace ==
    /\ \E t \in FitThreads : FitStore(t) \/ FitReturn(t)
    /\ UNCHANGED <<ctrlVars, filterVars, loggerVars, sinkVars, alertVars, abVars, deployVars,
                  ttcVars, promoterVars, shadowVars, oodVars, constraintVars, raceVars, rollingVars,
                  dispatchVars>>

InitFitRaceOnly ==
    IdleController /\ IdleFilter /\ IdleLogger /\ InitSink /\ InitAlert /\ IdleAb /\ InitDeploy /\
    IdleConformal /\ IdleTtc /\ InitPromoter /\ IdleShadow /\ IdleOod /\ InitConstraint /\
    InitFitRace /\ InitLogRace /\ InitRolling /\ InitDispatch

SpecFitRace == InitFitRaceOnly /\ [][NextFitRace]_vars

NextLogRace ==
    /\ \E t \in LogThreads : LogWrite(t) \/ LogSetPrevious(t) \/ LogLoad(t) \/ LogStore(t)
    /\ UNCHANGED <<ctrlVars, filterVars, sinkVars, alertVars, abVars, deployVars, conformalVars,
                  ttcVars, promoterVars, shadowVars, oodVars, constraintVars, fitVars, rollingVars,
                  dispatchVars>>

InitLogRaceOnly ==
    IdleController /\ IdleFilter /\ IdleLogger /\ InitSink /\ InitAlert /\ IdleAb /\ InitDeploy /\
    IdleConformal /\ IdleTtc /\ InitPromoter /\ IdleShadow /\ IdleOod /\ InitConstraint /\
    InitFitRace /\ InitLogRace /\ InitRolling /\ InitDispatch

SpecLogRace == InitLogRaceOnly /\ [][NextLogRace]_vars

NextRolling ==
    /\ \E t \in RecordThreads : RecordReadClock(t) \/ RecordLocked(t)
    /\ UNCHANGED <<ctrlVars, filterVars, loggerVars, sinkVars, alertVars, abVars, deployVars,
                  conformalVars, ttcVars, promoterVars, shadowVars, oodVars, constraintVars,
                  fitVars, raceVars, dispatchVars>>

InitRollingOnly ==
    IdleController /\ IdleFilter /\ IdleLogger /\ InitSink /\ InitAlert /\ IdleAb /\ InitDeploy /\
    IdleConformal /\ IdleTtc /\ InitPromoter /\ IdleShadow /\ IdleOod /\ InitConstraint /\
    InitFitRace /\ InitLogRace /\ InitRolling /\ InitDispatch

SpecRolling == InitRollingOnly /\ [][NextRolling]_vars

NextDispatch ==
    /\ \/ EvalBegin
       \/ EvalRule
       \/ EvalSend
    /\ UNCHANGED <<ctrlVars, filterVars, loggerVars, sinkVars, abVars, deployVars, conformalVars,
                  ttcVars, promoterVars, shadowVars, oodVars, constraintVars, fitVars, raceVars,
                  rollingVars>>

InitDispatchOnly ==
    IdleController /\ IdleFilter /\ IdleLogger /\ InitSink /\ InitAlert /\ IdleAb /\ InitDeploy /\
    IdleConformal /\ IdleTtc /\ InitPromoter /\ IdleShadow /\ IdleOod /\ InitConstraint /\
    InitFitRace /\ InitLogRace /\ InitRolling /\ InitDispatch

SpecDispatch == InitDispatchOnly /\ [][NextDispatch]_vars

Next ==
    \/ NextController
    \/ NextFilter
    \/ NextLogger
    \/ NextSink
    \/ NextAlert
    \/ NextAb
    \/ NextDeploy
    \/ NextConformal
    \/ NextTtc
    \/ NextPromoter
    \/ NextShadow
    \/ NextOod
    \/ NextConstraint
    \/ NextFitRace
    \/ NextLogRace
    \/ NextRolling
    \/ NextDispatch

Spec == Init /\ [][Next]_vars

(***************************************************************************)
(* The claims.                                                             *)
(***************************************************************************)
\* The severities the monitors returned in the last step call.
StepSeverities == {stepIn.outs[i].severity : i \in 1..monitors}

\* The largest of them, 0 when there are no monitors.
StepMaxSeverity ==
    IF StepSeverities = {} THEN 0
    ELSE CHOOSE m \in StepSeverities : \A x \in StepSeverities : x <= m

\* C1: when no monitor raised, step returns (and stores in current_state) the
\* state of the first matching rule: SafeStop if the maximum severity is >= 1.0,
\* else Fallback if ood_score > ood_threshold or the maximum severity > 0.1,
\* else Cautious if epistemic > uncertainty_threshold, else Nominal.
C1_StepFirstMatchingRule ==
    (stepIn # NoCall /\ stepOut # "raised") =>
        /\ current_state = stepOut
        /\ stepOut =
              CASE StepMaxSeverity >= 100 -> SAFE_STOP
                [] StepMaxSeverity < 100
                   /\ (stepIn.ood_score > ood_threshold \/ StepMaxSeverity > 10) -> FALLBACK
                [] StepMaxSeverity <= 10 /\ stepIn.ood_score <= ood_threshold
                   /\ stepIn.epistemic_score > uncertainty_threshold -> CAUTIOUS
                [] OTHER -> NOMINAL

\* Two monitors at the edge of the soft threshold (0.1 exactly), OOD at its
\* threshold, and the epistemic score alone selects Cautious.
C1_Witness ==
    /\ stepIn # NoCall
    /\ monitors = 2
    /\ stepOut = CAUTIOUS
    /\ StepMaxSeverity = 10
    /\ stepIn.ood_score = ood_threshold

\* C2: the action filter returns satisfies every configured box and half-space
\* constraint, and check_constraints reports every constraint satisfied.
C2_FilterCompliant ==
    filterOut # NoCall =>
        /\ \A i \in 1..Len(filterCfg.box_constraints) :
              BoxSatisfied(filterCfg.box_constraints[i], filterOut.action)
        /\ \A i \in 1..Len(filterCfg.linear_constraints) :
              LinearSatisfied(filterCfg.linear_constraints[i], filterOut.action)
        /\ \A n \in DOMAIN check_constraints(filterCfg, filterOut.action) :
              check_constraints(filterCfg, filterOut.action)[n]

\* The severities of the last step call with 0 for every monitor that raised.
StepSeveritiesOrZero ==
    [i \in 1..monitors |->
        IF stepIn.outs[i].kind = RAISES THEN 0 ELSE stepIn.outs[i].severity]

\* C3: step never raises; a monitor whose check raises counts with severity 0,
\* and step returns a mitigation state and stores it in current_state.
C3_StepNeverRaises ==
    stepIn # NoCall =>
        /\ stepOut \in MitigationState
        /\ current_state = stepOut
        /\ stepOut = NewState(IF monitors = 0 THEN 0 ELSE SeqMax(StepSeveritiesOrZero),
                              stepIn.ood_score, stepIn.epistemic_score)

\* C4: of two records with the same trace_id, the one emitted later has the
\* strictly larger step_number.
C4_StepNumbersIncrease ==
    \A i, j \in 1..Len(sinkRecords) :
        (i < j /\ sinkRecords[i].trace_id = sinkRecords[j].trace_id)
            => sinkRecords[i].step_number < sinkRecords[j].step_number

\* Records of two traces: the second trace starts again at the step number of
\* the first trace's record and has a later record with a larger one.
C4_Witness ==
    \E i, j \in 1..Len(sinkRecords) :
        /\ i < j
        /\ sinkRecords[1].trace_id = 1
        /\ sinkRecords[i].trace_id = 2
        /\ sinkRecords[j].trace_id = 2
        /\ sinkRecords[i].step_number = sinkRecords[1].step_number
        /\ sinkRecords[j].step_number > sinkRecords[i].step_number

\* C5: once close has returned, every record passed to write before it is in
\* the log file.
C5_DurableOnClose ==
    closePc = "returned" =>
        \A r \in 1..Len(accepted) : \E k \in 1..Len(logFile) : logFile[k] = accepted[r]

\* The last call was a log call.
LastWasLog == lastLog # NoCall /\ lastLog.state # None

\* The last log call handed a record to the sink: the newest record carries
\* the step number that call saw.
LastLogEmitted ==
    /\ Len(sinkRecords) > 0
    /\ sinkRecords[Len(sinkRecords)].trace_id = lastLog.trace_id
    /\ sinkRecords[Len(sinkRecords)].step_number = step_number - 1

RuleNamed(name) == CHOOSE i \in 1..Len(Rules) : Rules[i].name = name

AbsDiff(a, b) == IF a >= b THEN a - b ELSE b - a

\* C7: two alerts of the same rule are at least the rule's cooldown_seconds
\* apart.
C7_CooldownRespected ==
    \A i, j \in 1..Len(produced) :
        (i < j /\ produced[i].rule_name = produced[j].rule_name)
            => AbsDiff(produced[j].timestamp, produced[i].timestamp)
                  >= Rules[RuleNamed(produced[i].rule_name)].cooldown_seconds

\* Both rules have fired, one of them twice.
C7_Witness ==
    /\ \E i, j \in 1..Len(produced) :
          i < j /\ produced[i].rule_name = produced[j].rule_name
    /\ \E i, j \in 1..Len(produced) : produced[i].rule_name # produced[j].rule_name

\* C8: calls whose context carries the same sticky value get the same variant.
C8_StickyAssignment ==
    \A i, j \in 1..Len(assigned) :
        assigned[i][1] = assigned[j][1] => assigned[i][2] = assigned[j][2]

\* The same sticky value in two calls with a call of another value, assigned
\* to the other variant, between them, and a failed call among the runs.
C8_Witness ==
    /\ \E i, j, k \in 1..Len(assigned) :
          /\ i < k /\ k < j
          /\ assigned[i][1] = assigned[j][1]
          /\ assigned[k][1] # assigned[i][1]
          /\ assigned[k][2] # assigned[i][2]
    /\ \E v \in Variants : ab_metrics[v].errors > 0

\* The stage changes of production -> shadow -> ab_test -> production.
StageOrder ==
    { <<"production", "shadow">>, <<"shadow", "ab_test">>, <<"ab_test", "production">> }

\* C9: the stage only advances along production -> shadow -> ab_test ->
\* production, promote succeeds only from the ab_test stage, and a failed call
\* leaves the stage and the production policy unchanged.
C9_StageOrder ==
    [][/\ (current_stage' # current_stage => <<current_stage, current_stage'>> \in StageOrder)
       /\ ((lastCall' # NoCall /\ lastCall'.op = "promote" /\ lastCall'.outcome = "ok")
              => lastCall'.stage_before = "ab_test")
       /\ ((lastCall' # lastCall /\ lastCall'.outcome = "RuntimeError")
              => (current_stage' = current_stage /\ production_policy' = production_policy))
      ]_vars

\* C10: a run that overlaps promote does not fail because of the overlap: it
\* executes the shadow or A/B runner as it was before the promotion, or the
\* production policy.
C10_RunAtomicWithPromote ==
    runOut # NoCall => runOut.kind \in {"shadow", "ab_test", "production"}

\* C11: a predict call made before any successful fit does not raise and
\* returns a result that is not valid and has an empty prediction set, on the
\* split, the adaptive and the mondrian predictor.
C11_PredictBeforeFit ==
    (cpOut # NoCall /\ cpOut.op = "predict" /\ cpOut.fits = 0) =>
        /\ ~cpOut.raised
        /\ ~cpOut.result.is_valid
        /\ cpOut.result.prediction_set = {}

\* C12 (as the code has it): with alpha = 1 - coverage the miscoverage level
\* and q the quantile before the call, update sets the quantile to
\* max(0, q - gamma * alpha) when the true label is in the prediction set and
\* to max(0, q + gamma * (1 - alpha)) otherwise.
C12_UpdateRule ==
    (cpOut # NoCall /\ cpOut.op = "update") =>
        LET alpha == 100 - cp_config.coverage
        IN  cp_quantile =
               IF cpOut.covered
               THEN Max(0, cpOut.before - cp_config.gamma * alpha)
               ELSE Max(0, cpOut.before + cp_config.gamma * (100 - alpha))

\* A covered update at coverage 0.9 on a fitted quantile: the quantile goes
\* down by gamma * 0.1.
C12_Witness ==
    /\ cpOut # NoCall
    /\ cpOut.op = "update"
    /\ cpOut.covered
    /\ cp_config.coverage = 90
    /\ nFits > 0
    /\ cpOut.before >= 1200
    /\ cp_quantile = cpOut.before - cp_config.gamma * 10

\* C12 as stated: max(0, q - gamma * (1 - alpha)) when covered, q + gamma * alpha
\* otherwise.
C12_UpdateRuleAsStated ==
    (cpOut # NoCall /\ cpOut.op = "update") =>
        LET alpha == 100 - cp_config.coverage
        IN  cp_quantile =
               IF cpOut.covered
               THEN Max(0, cpOut.before - cp_config.gamma * (100 - alpha))
               ELSE cpOut.before + cp_config.gamma * alpha

\* C13: after a check, triggered was reported iff more than half of the
\* observations kept in the window are critical; with debounce_steps <= 1
\* triggered is the current observation.
C13_TriggeredIffMajority ==
    ttcOut # NoCall =>
        IF debounce_steps <= 1
        THEN ttcOut.triggered = ttcOut.critical
        ELSE ttcOut.triggered <=>
                2 * TriggerCount(trigger_history) > Len(trigger_history)

\* The metrics of the two variants in the evaluate call.
PromoterControl == promoterIn.metrics["control"]

PromoterCandidate == promoterIn.metrics["candidate"]

BothVariants == {"control", "candidate"} \subseteq DOMAIN promoterIn.metrics

C15_ProductionUnaffected ==
    shadowOut # NoCall =>
        /\ ~shadowOut.raised
        /\ shadowOut.production_action = ProductionPolicy(shadowOut.seen.observation)
        /\ (shadowOut.seen.runs_shadow /\ shadowOut.seen.behaviour = RAISES) =>
              /\ shadowOut.shadow_error
              /\ n_shadow_errors = shadowOut.seen.errors_before + 1

\* The detectors of the last score call whose score call did not raise.
Survivors == {i \in 1..Len(oodOut.outcomes) : oodOut.outcomes[i] # Fails}

\* The configured method applied to the surviving detectors alone.
SurvivorScore ==
    LET w == ood_config.weights
        o == oodOut.outcomes
        products == [i \in Survivors |-> w[i] * o[i]]
        weight == [i \in Survivors |-> w[i]]
    IN  CASE ood_config.combination_method = "weighted_mean" ->
               IF Survivors = {} THEN 0
               ELSE SetSum(products, Survivors) \div SetSum(weight, Survivors)
          [] ood_config.combination_method = "max" ->
               IF Survivors = {} THEN 0
               ELSE CHOOSE m \in {o[i] : i \in Survivors} : \A i \in Survivors : o[i] <= m
          [] ood_config.combination_method = "vote" ->
               (Cardinality({i \in Survivors : o[i] > ood_config.threshold}) * OodUnit)
                  \div Len(w)
          [] OTHER -> SetSum(products, Survivors) \div SeqSum(w)

\* C16: score does not raise; a detector that failed has component score 0;
\* the ensemble score is the configured combination of the surviving
\* detectors, and 0 when every detector failed.
C16_FailedDetectorsSkipped ==
    oodOut # NoCall =>
        /\ ~oodOut.raised
        /\ \A i \in 1..Len(oodOut.outcomes) :
              oodOut.outcomes[i] = Fails => oodOut.component_scores[i] = 0
        /\ oodOut.ensemble_score = SurvivorScore
        /\ Survivors = {} => oodOut.ensemble_score = 0

\* C17: a step call with the inputs of the first step call of the run returns
\* what the first call returned, whatever current_state the calls in between
\* left behind.
C17_StepMemoryless ==
    (stepFirst # NoCall /\ stepIn = stepFirst.in) => stepOut = stepFirst.out

\* The inputs of the first call (made in Nominal) were passed again in a state
\* other than Nominal, and both calls returned Cautious.
C17_Witness ==
    /\ stepFirst # NoCall
    /\ stepFirst.repeated
    /\ stepIn = stepFirst.in
    /\ stepOut = CAUTIOUS
    /\ monitors = 2

\* C18: no record handed to the sink has a key of field_filters among the
\* top-level keys of its observation, and the record of a log call keeps every
\* other top-level key of the observation passed, with its value.
C18_FilteredKeysDropped ==
    /\ \A i \in 1..Len(sinkRecords) : DOMAIN sinkRecords[i].observation \cap field_filters = {}
    /\ (LastWasLog /\ LastLogEmitted) =>
          LET kept == sinkRecords[Len(sinkRecords)].observation
          IN  /\ DOMAIN kept = DOMAIN lastLog.observation \ field_filters
              /\ \A k \in DOMAIN kept : kept[k] = lastLog.observation[k]

\* An observation with the filtered key "user_id" was logged: the record has
\* "speed" only.
C18_Witness ==
    /\ LastWasLog
    /\ LastLogEmitted
    /\ field_filters = {"user_id"}
    /\ DOMAIN lastLog.observation = {"speed", "user_id"}
    /\ DOMAIN sinkRecords[Len(sinkRecords)].observation = {"speed"}

\* C19: replaying the logger's records with the policy that chose their actions
\* gives an action divergence of 0 at every step (replay), and a maximum and
\* mean divergence of 0 over every record (compute_divergence).
C19_ReplayDivergenceZero ==
    replayOut # NoCall =>
        IF replayOut.op = "replay"
        THEN \A i \in 1..Len(replayOut.results) :
                /\ ~replayOut.results[i].policy_error
                /\ replayOut.results[i].action_divergence = 0
        ELSE /\ replayOut.n_samples = Len(sinkRecords)
             /\ replayOut.max = 0
             /\ replayOut.mean = 0

\* C20 (as the code has it): an evaluation produces an alert for a rule whose
\* metric is present exactly when the rule's predicate is true on the value,
\* the sample count of the metric is at least min_samples, and now - last_fired
\* >= cooldown_seconds, last_fired being _last_alert before the evaluation.
C20_FiresWhenDue ==
    [][\A t \in EvalThreads :
          (evalPc[t] = "waiting" /\ evalPc'[t] = "idle") =>
             \A i \in 1..Len(Rules) :
                Rules[i].metric \in DOMAIN evalSeen'.metrics =>
                   ((\E k \in (Len(produced) + 1)..Len(produced') :
                        produced'[k].rule_name = Rules[i].name)
                    <=> /\ Condition(Rules[i], evalSeen'.metrics[Rules[i].metric])
                        /\ evalSeen'.sample_counts[Rules[i].metric] >= Rules[i].min_samples
                        /\ evalNow[t] - LastAlert(last_alert, Rules[i].name)
                              >= Rules[i].cooldown_seconds)]_vars

\* The last evaluation saw exactly min_samples samples of "latency" and
\* produced the alert of the rule on it.
C20_Witness ==
    /\ evalSeen # NoCall
    /\ "latency" \in DOMAIN evalSeen.metrics
    /\ evalSeen.sample_counts["latency"] = Rules[RuleNamed("high_latency")].min_samples
    /\ "high_latency" \in evalSeen.fired

\* C20 as stated: the sample count strictly greater than min_samples.
C20_FiresWhenDueAsStated ==
    [][\A t \in EvalThreads :
          (evalPc[t] = "waiting" /\ evalPc'[t] = "idle") =>
             \A i \in 1..Len(Rules) :
                Rules[i].metric \in DOMAIN evalSeen'.metrics =>
                   ((\E k \in (Len(produced) + 1)..Len(produced') :
                        produced'[k].rule_name = Rules[i].name)
                    <=> /\ Condition(Rules[i], evalSeen'.metrics[Rules[i].metric])
                        /\ evalSeen'.sample_counts[Rules[i].metric] > Rules[i].min_samples
                        /\ evalNow[t] - LastAlert(last_alert, Rules[i].name)
                              >= Rules[i].cooldown_seconds)]_vars

\* C28: in the FilteredAction returned by filter, was_modified is true whenever
\* the returned action differs from the candidate action.
C28_ModifiedWhenActionDiffers ==
    filterOut # NoCall =>
        (filterOut.action # filterIn.candidate_action => filterOut.was_modified)

\* C30: the error_rate get_statistics reports is within [0, 1].
C30_ErrorRateInUnitInterval ==
    statsOut # NoCall =>
        /\ 0 <= statsOut.error_rate.num
        /\ statsOut.error_rate.num <= statsOut.error_rate.den

\* C22: for every variant, the latency samples and action values retained and
\* the values retained of a custom metric never exceed the retention limit.
C22_BoundedRetention ==
    \A v \in Variants :
        /\ ab_metrics[v].retained <= retention_limit
        /\ ab_metrics[v].custom_metrics <= retention_limit

\* C25: the record of a log call has as previous_state the mitigation state
\* passed to the preceding log call of the trace, and Nominal when the call is
\* the first one after construction or new_trace.
C25_PreviousStateIsPrecedingCall ==
    (LastWasLog /\ LastLogEmitted) =>
        sinkRecords[Len(sinkRecords)].previous_state =
            IF lastLog.prior = None THEN NOMINAL ELSE lastLog.prior

\* With log_all false, the first record of a trace is written by the call that
\* follows two skipped Nominal calls, and has previous_state Nominal.
C25_Witness ==
    /\ LastWasLog
    /\ LastLogEmitted
    /\ ~log_all
    /\ lastLog.prior = NOMINAL
    /\ lastLog.state = CAUTIOUS
    /\ Len(sinkRecords) = 1
    /\ sinkRecords[1].step_number = 2
    /\ sinkRecords[1].previous_state = NOMINAL

\* C29: whenever the ConstraintMonitor reports triggered in a step, step
\* returns Fallback or SafeStop.
C29_TriggeredConstraintMitigates ==
    (cmOut # NoCall /\ cmOut.triggered) => cmOut.state \in {FALLBACK, SAFE_STOP}

\* C27: a fit call that has returned returned the calibration_id of the
\* CalibrationData that this call stored.
C27_FitReturnsOwnId ==
    \A t \in FitThreads : fitPc[t] = "returned" => fitRet[t] = fitMine[t]

\* C26: with threads calling log concurrently, no two records of a trace have
\* the same step_number, and once every call has returned the step counter is
\* the number of log calls made in the trace.
C26_ConcurrentStepNumbers ==
    /\ \A i, j \in 1..Len(sinkRecords) :
          (i < j /\ sinkRecords[i].trace_id = sinkRecords[j].trace_id)
             => sinkRecords[i].step_number # sinkRecords[j].step_number
    /\ (\A t \in LogThreads : logPc[t] = "idle") => step_number = logDone

\* C23: after a record call the window holds at most max_samples entries, no
\* entry older than window_seconds before the call's time, and the entries are
\* the most recent arrivals in arrival order, the one just recorded included.
C23_WindowHoldsRecentEntries ==
    rsLast # NoCall =>
        /\ Len(rsValues) <= max_samples
        /\ \A i \in 1..Len(rsValues) : rsValues[i].time >= rsLast.now - window_seconds
        /\ Len(rsValues) >= 1
        /\ \A i \in 1..Len(rsValues) : rsValues[i].arrival = rsTotal - Len(rsValues) + i

\* Whether call k of the evaluation is the send of channel j of rule i.
SentTo(i, j) ==
    \E k \in 1..Len(dCalls) :
        dCalls[k].callable = "send" /\ dCalls[k].rule = i /\ dCalls[k].channel = j

\* C21: when evaluate has returned, every rule whose checks passed, a rule
\* with a channel whose send raised included, had send called on each of its
\* channels, has its alert in the returned list and in the history, and has
\* its cooldown started at the time of the evaluation; the rules after it
\* were processed alike.
C21_RaisingChannelIsContained ==
    dPc = "returned" =>
        \A i \in 1..Len(Rules) :
            Fires(Rules[i], dIn.metrics, dIn.sample_counts, dIn.last, dIn.now) =>
                LET alert == [rule_name |-> Rules[i].name, timestamp |-> dIn.now]
                IN  /\ \A j \in 1..NumChannels : SentTo(i, j)
                    /\ \E k \in 1..Len(dTriggered) : dTriggered[k] = alert
                    /\ \E k \in 1..Len(alert_history) : alert_history[k] = alert
                    /\ Rules[i].name \in DOMAIN last_alert
                    /\ last_alert[Rules[i].name] = dIn.now

\* C21 witness: the first channel of the first rule raised, and the
\* evaluation returned two alerts.
C21_Witness ==
    /\ dPc = "returned"
    /\ Len(dTriggered) = 2
    /\ \E k \in 1..Len(dCalls) :
          /\ dCalls[k].callable = "send"
          /\ dCalls[k].rule = 1
          /\ dCalls[k].channel = 1
          /\ dCalls[k].behaviour = RAISES
    /\ SentTo(1, 2)
    /\ SentTo(2, 1)

\* C24: no user-supplied callable is called while the lock of the engine is
\* held, and no evaluation blocks on the lock it holds.
C24_NoCallableUnderLock ==
    /\ \A k \in 1..Len(dCalls) : ~dCalls[k].locked
    /\ dPc # "deadlocked"

====
